---------------------------- MODULE Spec2Model ----------------------------
(***************************************************************************)
(* A model of c-header-parser: the TypeParser (type registry, declaration  *)
(* parser, aggregate parser, layout calculator) and the DataReader (the    *)
(* schema-driven binary decoder).                                          *)
(*                                                                         *)
(* Source text is a string, character by character as in the code, with   *)
(* lines delimited by EOL.  Maps are functions whose DOMAIN is the key     *)
(* set, lists are sequences.  A size_t is written in two's complement: a   *)
(* negative integer stands for the value above the signed range that has   *)
(* the same bit pattern ((size_t)-1 is -1), and is compared as unsigned.   *)
(* assert() is taken to be compiled in (the parser advances its position   *)
(* inside assert arguments), so a failing assert ends the run: status      *)
(* "abort".                                                                *)
(***************************************************************************)
EXTENDS Integers, Sequences, FiniteSets, TLC

VARIABLES
    tp,       \* the TypeParser object: its maps and the run's status
    dr,       \* the DataReader object
    env,      \* the input of the run, drawn by Init
    ret       \* what the last operation returned / reported

vars == <<tp, dr, env, ret>>

---------------------------------------------------------------------------
(* Program constants *)

kAlignment_ == 4
kWordSize_ == 4
SizeOfInt == 4
kPaddingFieldName == "_padding_field_"
kAnonymousTypePrefix == "_ANONYMOUS_"

basic_types_ ==
    {"char", "short", "int", "size_t", "ssize_t", "long", "float", "double",
     "void", "bool", "__int64", "__WCHAR_T_TYPE__", "__SIZE_T_TYPE__",
     "__PTRDIFF_T_TYPE__"}

qualifiers_ ==
    {"static", "const", "signed", "unsigned", "far", "extern", "volatile",
     "auto", "register", "inline", "__attribute__"}

keywords_ == {"struct", "union", "enum", "typedef"}

---------------------------------------------------------------------------
(* Generic helpers *)

\* a >= b on size_t
UnsignedGE(a, b) == IF (a < 0) = (b < 0) THEN a >= b ELSE a < 0

\* std::max on size_t
Max(a, b) == IF UnsignedGE(a, b) THEN a ELSE b

\* std::list::insert(it, x) with it at index i: x becomes element i
InsertAt(s, i, x) == SubSeq(s, 1, i - 1) \o <<x>> \o SubSeq(s, i, Len(s))

\* map[key] = value
Put(m, k, v) == [x \in DOMAIN m \cup {k} |-> IF x = k THEN v ELSE m[x]]

\* ceil(n * 1.0 / kAlignment_) * kAlignment_
CeilAlign(n) == ((n + kAlignment_ - 1) \div kAlignment_) * kAlignment_

---------------------------------------------------------------------------
(* TypeParser construction.  Besides the members of the class the record   *)
(* holds the run's status, the depth of the ParseFile calls, and two        *)
(* histories the properties are stated on: parsed (the files handed to      *)
(* ParseSource, in order) and typedefs (the is_typedef argument of every    *)
(* ParseStructUnion / ParseEnum call made by ParseSource).                  *)

Initialize ==
    [ struct_defs_ |-> <<>>,
      union_defs_  |-> <<>>,
      enum_defs_   |-> <<>>,
      const_defs_  |-> <<>>,
      header_files_ |-> <<>>,
      include_paths_ |-> <<>>,
      type_sizes_  |->
          [t \in basic_types_ |->
              CASE t = "void" -> 0
                [] t = "char" -> 1
                [] t = "short" -> 2
                [] t = "bool" -> 1
                [] t = "__WCHAR_T_TYPE__" -> 1
                [] OTHER -> kWordSize_],
      parsed |-> <<>>,
      typedefs |-> <<>>,
      depth |-> 0,
      status |-> "run" ]

---------------------------------------------------------------------------
(* Layout calculator *)

VariableDeclaration(type, name, array, pointer, size) ==
    [data_type |-> type, var_name |-> name, array_size |-> array,
     is_pointer |-> pointer, var_size |-> size]

\* a padding field of one byte whatever the size asked for
MakePadFieldOfOne(size) == VariableDeclaration("char", kPaddingFieldName, 0, FALSE, 1)

MakePadField(size) == VariableDeclaration("char", kPaddingFieldName, 0, FALSE, size)

\* The loop of PadStructMembers: `it` is the 1-based index of the iterator in
\* `members` (Len+1 is end()).  Result: the list as the loop left it, the
\* returned size, whether the loop left through one of its Error/Debug
\* returns (error), and whether the assert at the 2-byte run failed (abort).
RECURSIVE PadLoop(_, _, _, _)
PadLoop(members, it, total, last_size) ==
    IF it > Len(members)
    THEN [members |-> members, size |-> total, error |-> FALSE, abort |-> FALSE]
    ELSE
    LET size == members[it].var_size IN
    IF size % kAlignment_ = 0
    THEN IF last_size > 0
         THEN LET align_size == CeilAlign(last_size)
                  pad_size == align_size - last_size
              IN PadLoop(InsertAt(members, it, MakePadField(pad_size)),
                         it + 2, total + align_size, 0)
         ELSE PadLoop(members, it + 1, total + size, 0)
    ELSE
    IF UnsignedGE(size, kAlignment_)
    THEN [members |-> members, size |-> 0, error |-> TRUE, abort |-> FALSE]
    ELSE
    IF last_size = 0
    THEN PadLoop(members, it + 1, total, size)
    ELSE IF (size + last_size) % kAlignment_ = 0
    THEN PadLoop(members, it + 1, total + size + last_size, 0)
    ELSE IF last_size = 1
    THEN IF size = 1
         THEN PadLoop(members, it + 1, total, last_size + 1)
         ELSE IF size = 2
         THEN PadLoop(InsertAt(members, it, MakePadField(1)),
                      it + 2, total + kAlignment_, 0)
         ELSE [members |-> members, size |-> 0, error |-> TRUE, abort |-> FALSE]
    ELSE IF last_size = 2
    THEN IF size # 1
         THEN [members |-> members, size |-> 0, error |-> FALSE, abort |-> TRUE]
         ELSE PadLoop(InsertAt(members, it + 1, MakePadField(1)),
                      it + 2, total + kAlignment_, 0)
    ELSE [members |-> members, size |-> 0, error |-> TRUE, abort |-> FALSE]

PadStructMembers(members) == PadLoop(members, 1, 0, 0)

RECURSIVE MaxVarSize(_)
MaxVarSize(members) ==
    IF members = <<>> THEN 0
    ELSE Max(MaxVarSize(Tail(members)), Head(members).var_size)

\* static_cast<size_t>(ceil(size * 1.0 / kAlignment_) * kAlignment_) has no
\* defined value when the product is above the range of size_t: a size_t of
\* 64 bits above the signed range becomes 2^64 as a double
RoundingOverflows(size) == size < 0 /\ size % kAlignment_ # 0

\* CalcUnionSize without its rounding step
CalcUnionSizeUnrounded(members) == MaxVarSize(members)

CalcUnionSize(members) ==
    LET size == MaxVarSize(members) IN
    IF size % kAlignment_ # 0 THEN CeilAlign(size) ELSE size

\* Returns the parser object after the call; `members` is an in/out
\* argument of the code, its value after the call is the stored list.
StoreStructUnionDef(p, is_struct, type_name, members) ==
    IF is_struct
    THEN LET r == PadStructMembers(members) IN
         IF r.abort
         THEN [p EXCEPT !.status = "abort"]
         ELSE [p EXCEPT !.struct_defs_ = Put(@, type_name, r.members),
                        !.type_sizes_ = Put(@, type_name, r.size)]
    ELSE IF RoundingOverflows(MaxVarSize(members))
    THEN [p EXCEPT !.status = "undefined"]
    ELSE [p EXCEPT !.union_defs_ = Put(@, type_name, members),
                   !.type_sizes_ = Put(@, type_name, CalcUnionSize(members))]

---------------------------------------------------------------------------
(* std::string, 0-based as in the code; npos is -1 *)

npos == -1
EOL == "$"
kTokenDelimiters ==
    {" ", "\t", "#", "{", "[", "(", "<", "&", "|", "*", ">", ")", "]", "}",
     "?", "'", ":", "\"", ",", "%", "!", "=", "/", ";", "+", "$"}

\* s[i]; s[s.length()] is the terminating '\0', modelled as ""
CharAt(s, i) == IF i >= 0 /\ i < Len(s) THEN SubSeq(s, i + 1, i + 1) ELSE ""

isspace(ch) == ch \in {" ", "\t", "\n", "\r"}

\* s.substr(start) and s.substr(start, n)
SubstrFrom(s, start) == SubSeq(s, start + 1, Len(s))
Substr(s, start, n) ==
    SubSeq(s, start + 1, IF start + n > Len(s) THEN Len(s) ELSE start + n)

\* s.find(ch, pos)
RECURSIVE Find(_, _, _)
Find(s, ch, pos) ==
    IF pos >= Len(s) THEN npos
    ELSE IF CharAt(s, pos) = ch THEN pos
    ELSE Find(s, ch, pos + 1)

\* s.find_first_of(chars, pos)
RECURSIVE FindFirstOf(_, _, _)
FindFirstOf(s, chars, pos) ==
    IF pos >= Len(s) THEN npos
    ELSE IF CharAt(s, pos) \in chars THEN pos
    ELSE FindFirstOf(s, chars, pos + 1)

\* s.rfind(ch, pos); pos = npos searches from the end
RECURSIVE RFindFrom(_, _, _)
RFindFrom(s, ch, i) ==
    IF i < 0 THEN npos
    ELSE IF CharAt(s, i) = ch THEN i
    ELSE RFindFrom(s, ch, i - 1)

RFind(s, ch, pos) ==
    RFindFrom(s, ch, IF pos = npos \/ pos >= Len(s) THEN Len(s) - 1 ELSE pos)

\* position of the first character at or after pos that is neither blank
\* nor EOL (GetNextToken's "skip leading blanks or EOL")
RECURSIVE SkipBlanks(_, _)
SkipBlanks(s, pos) ==
    IF pos < Len(s) /\ (isspace(CharAt(s, pos)) \/ CharAt(s, pos) = EOL)
    THEN SkipBlanks(s, pos + 1)
    ELSE pos

\* trim(): both ends
RECURSIVE ltrim(_)
ltrim(s) == IF Len(s) > 0 /\ isspace(CharAt(s, 0)) THEN ltrim(SubstrFrom(s, 1)) ELSE s

RECURSIVE rtrim(_)
rtrim(s) ==
    IF Len(s) > 0 /\ isspace(CharAt(s, Len(s) - 1))
    THEN rtrim(Substr(s, 0, Len(s) - 1)) ELSE s

trim(s) == ltrim(rtrim(s))

---------------------------------------------------------------------------
(* strtol(token, NULL, 0) *)

DigitValue(ch) ==
    CASE ch = "0" -> 0 [] ch = "1" -> 1 [] ch = "2" -> 2 [] ch = "3" -> 3
      [] ch = "4" -> 4 [] ch = "5" -> 5 [] ch = "6" -> 6 [] ch = "7" -> 7
      [] ch = "8" -> 8 [] ch = "9" -> 9
      [] ch \in {"a", "A"} -> 10 [] ch \in {"b", "B"} -> 11
      [] ch \in {"c", "C"} -> 12 [] ch \in {"d", "D"} -> 13
      [] ch \in {"e", "E"} -> 14 [] ch \in {"f", "F"} -> 15
      [] OTHER -> 99

RECURSIVE Digits(_, _, _, _)
Digits(s, i, base, acc) ==
    IF DigitValue(CharAt(s, i)) < base
    THEN Digits(s, i + 1, base, acc * base + DigitValue(CharAt(s, i)))
    ELSE acc

\* the digits of s from index b on: a 0x prefix makes them hexadecimal, a
\* leading 0 octal
StrToLDigits(s, b) ==
    IF CharAt(s, b) = "0" /\ CharAt(s, b + 1) \in {"x", "X"}
       /\ DigitValue(CharAt(s, b + 2)) < 16
    THEN Digits(s, b + 2, 16, 0)
    ELSE IF CharAt(s, b) = "0" THEN Digits(s, b, 8, 0)
    ELSE Digits(s, b, 10, 0)

\* s has no leading white space
StrToLSigned(s) ==
    IF CharAt(s, 0) = "-" THEN 0 - StrToLDigits(s, 1)
    ELSE IF CharAt(s, 0) = "+" THEN StrToLDigits(s, 1)
    ELSE StrToLDigits(s, 0)

StrToL(token) == StrToLSigned(ltrim(token))

---------------------------------------------------------------------------
(* Token classification and sizes *)

IsIgnorable(token) == token = "" \/ token \in qualifiers_

GetTokenType(p, token) ==
    IF token = "struct" THEN "kStructKeyword"
    ELSE IF token = "union" THEN "kUnionKeyword"
    ELSE IF token = "enum" THEN "kEnumKeyword"
    ELSE IF token = "typedef" THEN "kTypedefKeyword"
    ELSE IF token \in qualifiers_ THEN "kQualifier"
    ELSE IF token \in basic_types_ THEN "kBasicDataType"
    ELSE IF token \in DOMAIN p.struct_defs_ THEN "kStructName"
    ELSE IF token \in DOMAIN p.union_defs_ THEN "kUnionName"
    ELSE IF token \in DOMAIN p.enum_defs_ THEN "kEnumName"
    ELSE "kUnresolvedToken"

\* IsNumericToken once strtol has returned number
IsNumericValue(p, token, number) ==
    IF number = 0
    THEN IF token \in DOMAIN p.const_defs_
         THEN [ok |-> TRUE, number |-> p.const_defs_[token]]
         ELSE [ok |-> FALSE, number |-> 0]
    ELSE [ok |-> TRUE, number |-> number]

\* [ok, number]: number is what the code leaves in its out-parameter
IsNumericToken(p, token) ==
    IF token = "" THEN [ok |-> FALSE, number |-> 0]
    ELSE IsNumericValue(p, token, StrToL(token))

GetTypeSize(p, data_type) ==
    IF data_type \in DOMAIN p.type_sizes_ THEN p.type_sizes_[data_type]
    ELSE IF data_type \in DOMAIN p.enum_defs_ THEN SizeOfInt
    ELSE -1

---------------------------------------------------------------------------
(* Tokenizer *)

RECURSIVE GetNextTokenIn(_, _)

\* the token from pos up to the delimiter at ptk (npos: none), an ignorable
\* token being passed over
GetNextTokenAt(src, pos, ptk) ==
    IF ptk = npos
    THEN IF IsIgnorable(SubstrFrom(src, pos))
         THEN GetNextTokenIn(src, Len(src))
         ELSE [ok |-> TRUE, pos |-> Len(src), token |-> SubstrFrom(src, pos)]
    ELSE IF ptk = pos
    THEN IF IsIgnorable(CharAt(src, ptk))
         THEN GetNextTokenIn(src, ptk + 1)
         ELSE [ok |-> TRUE, pos |-> ptk + 1, token |-> CharAt(src, ptk)]
    ELSE IF IsIgnorable(Substr(src, pos, ptk - pos))
    THEN GetNextTokenIn(src, ptk)
    ELSE [ok |-> TRUE, pos |-> ptk, token |-> Substr(src, pos, ptk - pos)]

\* pos is past the leading blanks and EOLs
GetNextTokenFrom(src, pos) ==
    IF pos >= Len(src)
    THEN [ok |-> FALSE, pos |-> pos, token |-> ""]
    ELSE GetNextTokenAt(src, pos, FindFirstOf(src, kTokenDelimiters, pos))

GetNextTokenIn(src, pos0) == GetNextTokenFrom(src, SkipBlanks(src, pos0))

\* src = src.substr(0, p) for the EOL at p that follows pos
CutAtEOL(src, p) == IF p # npos THEN Substr(src, 0, p) ELSE src

\* bool GetNextToken(string src, size_t &pos, string &token, bool cross_line)
\* Result [ok, pos, token].  With cross_line = FALSE the copy of src is cut
\* at the EOL following pos.
GetNextToken(src, pos, cross_line) ==
    GetNextTokenIn(IF cross_line THEN src ELSE CutAtEOL(src, Find(src, EOL, pos)),
                   pos)

RECURSIVE SplitFrom(_, _)

SplitToken(line, t) ==
    IF t.ok THEN <<t.token>> \o SplitFrom(line, t.pos) ELSE <<>>

SplitFrom(line, start) == SplitToken(line, GetNextToken(line, start, TRUE))

SplitLineIntoTokens(line) == SplitFrom(line, 0)

\* GetRestLine with p the place of the next EOL
GetRestLineTo(src, pos, p) ==
    IF p # npos
    THEN [ok |-> TRUE, pos |-> p, line |-> Substr(src, pos, p - pos)]
    ELSE [ok |-> TRUE, pos |-> Len(src), line |-> SubstrFrom(src, pos)]

\* [ok, pos, line]
GetRestLine(src, pos) ==
    IF CharAt(src, pos) = EOL
    THEN [ok |-> FALSE, pos |-> pos, line |-> ""]
    ELSE GetRestLineTo(src, pos, Find(src, EOL, pos))

\* GetNextLine with the line found between the EOLs at start and end
GetNextLineOf(src, start, end, line) ==
    [ok |-> TRUE,
     pos |-> IF end = npos THEN Len(src) ELSE end,
     line |-> line,
     abort |-> (end = start + 1) \/ line = ""]

\* GetNextLine with start the EOL that ends the current line and end the
\* EOL after it
GetNextLineBetween(src, start, end) ==
    GetNextLineOf(src, start, end,
                  trim(IF end = npos THEN SubstrFrom(src, start + 1)
                       ELSE Substr(src, start + 1, end - (start + 1))))

GetNextLineAfter(src, start) ==
    IF start = npos
    THEN [ok |-> FALSE, pos |-> Len(src), line |-> "", abort |-> FALSE]
    ELSE GetNextLineBetween(src, start, Find(src, EOL, start + 1))

\* [ok, pos, line, abort]: abort when one of its asserts fails
GetNextLine(src, pos) == GetNextLineAfter(src, Find(src, EOL, pos))

\* SkipCurrentLine with start and end the EOLs around pos
SkipCurrentLineBetween(src, pos, start, end) ==
    IF end = npos
    THEN [pos |-> Len(src), line |-> SubstrFrom(src, start + 1)]
    ELSE IF end = pos
    THEN [pos |-> pos + 1,
          line |-> Substr(src, RFind(src, EOL, pos - 1) + 1,
                          end - RFind(src, EOL, pos - 1) - 1)]
    ELSE [pos |-> end + 1, line |-> Substr(src, start + 1, end - start - 1)]

\* [pos, line]
SkipCurrentLine(src, pos) ==
    IF pos >= Len(src) THEN [pos |-> pos, line |-> ""]
    ELSE SkipCurrentLineBetween(src, pos, RFind(src, EOL, pos), Find(src, EOL, pos))


---------------------------------------------------------------------------
(* Declaration parser *)

\* tokens[i] of the code (0-based); past the end the access is out of
\* range, reported as ""
TokenAt(tokens, index) == IF index < Len(tokens) THEN tokens[index + 1] ELSE ""

\* ParseDeclaration from the array size on: n is what IsNumericToken said
ParseDeclarationArray(decl, length, n) ==
    IF n.ok
    THEN [ok |-> TRUE, abort |-> FALSE,
          decl |-> [decl EXCEPT !.array_size = n.number,
                                !.var_size = length * n.number]]
    ELSE [ok |-> FALSE, decl |-> decl, abort |-> FALSE]

\* ParseDeclaration from tokens[++index] after the name on
ParseDeclarationTail(p, tokens, decl, length, index) ==
    IF index >= Len(tokens) THEN [ok |-> FALSE, decl |-> decl, abort |-> TRUE]
    ELSE IF TokenAt(tokens, index) = "["
    THEN ParseDeclarationArray(decl, length,
                               IsNumericToken(p, TokenAt(tokens, index + 1)))
    ELSE [ok |-> TRUE, abort |-> FALSE,
          decl |-> [decl EXCEPT !.array_size = 0, !.var_size = length]]

\* ParseDeclaration from the check of the type size on
ParseDeclarationName(p, tokens, decl, length) ==
    IF length = 0 THEN [ok |-> FALSE, decl |-> decl, abort |-> FALSE]
    ELSE IF TokenAt(tokens, 1) = "*"
    THEN ParseDeclarationTail(p, tokens,
                              [decl EXCEPT !.is_pointer = TRUE,
                                           !.var_name = TokenAt(tokens, 2)],
                              kWordSize_, 3)
    ELSE ParseDeclarationTail(p, tokens,
                              [decl EXCEPT !.var_name = TokenAt(tokens, 1)],
                              length, 2)

\* ParseDeclaration from the split of the line on
ParseDeclarationTokens(p, tokens, decl) ==
    IF Len(tokens) < 3 THEN [ok |-> FALSE, decl |-> decl, abort |-> TRUE]
    ELSE ParseDeclarationName(p, tokens,
                              [decl EXCEPT !.data_type = TokenAt(tokens, 0),
                                           !.is_pointer = FALSE],
                              GetTypeSize(p, TokenAt(tokens, 0)))

\* bool ParseDeclaration(const string &line, VariableDeclaration &decl)
\* Result [ok, decl, abort]: decl is the out-parameter as the code leaves it.
ParseDeclaration(p, line, decl) ==
    IF line = "" THEN [ok |-> FALSE, decl |-> decl, abort |-> TRUE]
    ELSE IF CharAt(line, Len(line) - 1) # ";"
    THEN [ok |-> FALSE, decl |-> decl, abort |-> FALSE]
    ELSE ParseDeclarationTokens(p, SplitLineIntoTokens(line), decl)

\* a VariableDeclaration before anything is stored in it
NoDecl == VariableDeclaration("", "", 0, FALSE, 0)

---------------------------------------------------------------------------
(* Aggregate parser: shared steps *)

Abort(p) == [p EXCEPT !.status = "abort"]

\* The result of ParseStructUnion / ParseEnum: the returned bool, the parser
\* object, the unread random values, and the reference arguments pos,
\* var_decl and is_decl as the call leaves them.
Result(ok, p, rnd, pos, decl, is_decl) ==
    [ok |-> ok, p |-> p, rnd |-> rnd, pos |-> pos, decl |-> decl,
     is_decl |-> is_decl]

\* assert(GetNextLine(src, pos, line))
AssertNextLine(n) == [pos |-> n.pos, line |-> n.line, abort |-> ~n.ok \/ n.abort]

RestLineOr(src, pos, r) ==
    IF r.ok THEN [pos |-> r.pos, line |-> r.line, abort |-> FALSE]
    ELSE AssertNextLine(GetNextLine(src, pos))

\* if (!GetRestLine(src, pos, line)) assert(GetNextLine(src, pos, line));
RestOrNextLine(src, pos) == RestLineOr(src, pos, GetRestLine(src, pos))

\* type_name = kAnonymousTypePrefix + rands() taken once, whatever defs holds
AnonymousNameNoRetry(defs, rnd) ==
    IF rnd = <<>> THEN [name |-> "", rnd |-> rnd, starved |-> TRUE]
    ELSE [name |-> kAnonymousTypePrefix \o Head(rnd), rnd |-> Tail(rnd),
          starved |-> FALSE]

\* do { type_name = kAnonymousTypePrefix + rands(); } while (defs has it);
\* rnd holds the values the following calls of rands() return.  starved:
\* the values ran out while the loop was still turning.
RECURSIVE AnonymousName(_, _)
AnonymousName(defs, rnd) ==
    IF rnd = <<>> THEN [name |-> "", rnd |-> rnd, starved |-> TRUE]
    ELSE IF kAnonymousTypePrefix \o Head(rnd) \in DOMAIN defs
    THEN AnonymousName(defs, Tail(rnd))
    ELSE [name |-> kAnonymousTypePrefix \o Head(rnd), rnd |-> Tail(rnd),
          starved |-> FALSE]

\* the type name of a block followed by a variable: its own, or a fresh
\* anonymous one
NameOrAnonymous(type_name, defs, rnd) ==
    IF type_name = "" THEN AnonymousName(defs, rnd)
    ELSE [name |-> type_name, rnd |-> rnd, starved |-> FALSE]

Starve(p) == [p EXCEPT !.status = "starved"]

\* The end of a "} var;" block: d is what ParseDeclaration said of the line
\* made of the type name, the token after '}' and the rest of the line
VarDeclResult(p, rnd, pos, d) ==
    IF d.abort THEN Result(FALSE, Abort(p), rnd, pos, d.decl, TRUE)
    ELSE Result(d.ok, p, rnd, pos, d.decl, TRUE)

\* line = type_name + " " + token + " " + line; ParseDeclaration(line, var_decl)
\* with r the rest of the line after token
VarDeclLine(p, rnd, type_name, token, r, var_decl) ==
    IF p.status # "run" THEN Result(FALSE, p, rnd, r.pos, var_decl, TRUE)
    ELSE IF r.abort THEN Result(FALSE, Abort(p), rnd, r.pos, var_decl, TRUE)
    ELSE VarDeclResult(p, rnd, r.pos,
                       ParseDeclaration(p, type_name \o " " \o token \o " " \o r.line,
                                        var_decl))

---------------------------------------------------------------------------
(* Enum parser *)

\* map.insert(make_pair(k, v)): keeps an existing entry
Insert(m, k, v) == IF k \in DOMAIN m THEN m ELSE Put(m, k, v)

\* the value of a label without the increment
LastValueAgain(last_value) == last_value

\* ++last_value
NextValue(last_value) == last_value + 1

\* ParseEnumDeclaration with the tokens of the line and what IsNumericToken
\* says of tokens[2]
ParseEnumDeclarationTokens(tokens, last_value, num) ==
    IF Len(tokens) = 1
    THEN [ok |-> TRUE, last_value |-> NextValue(last_value),
          decl |-> <<tokens[1], NextValue(last_value)>>,
          is_last_member |-> TRUE, abort |-> FALSE]
    ELSE IF Len(tokens) = 2
    THEN [ok |-> TRUE, last_value |-> NextValue(last_value),
          decl |-> <<tokens[1], NextValue(last_value)>>,
          is_last_member |-> FALSE, abort |-> CharAt(tokens[2], 0) # ","]
    ELSE IF Len(tokens) \in {3, 4}
    THEN IF CharAt(tokens[2], 0) # "="
            \/ (Len(tokens) = 4 /\ CharAt(tokens[4], 0) # ",")
         THEN [ok |-> FALSE, last_value |-> last_value, decl |-> <<"", 0>>,
               is_last_member |-> FALSE, abort |-> TRUE]
         ELSE IF ~num.ok
         THEN [ok |-> FALSE, last_value |-> last_value, decl |-> <<"", 0>>,
               is_last_member |-> FALSE, abort |-> FALSE]
         ELSE [ok |-> TRUE, last_value |-> num.number,
               decl |-> <<tokens[1], num.number>>,
               is_last_member |-> Len(tokens) = 3, abort |-> FALSE]
    ELSE [ok |-> FALSE, last_value |-> last_value, decl |-> <<"", 0>>,
          is_last_member |-> FALSE, abort |-> FALSE]

ParseEnumDeclarationSplit(p, tokens, last_value) ==
    ParseEnumDeclarationTokens(tokens, last_value,
                               IsNumericToken(p, TokenAt(tokens, 2)))

\* [ok, last_value, decl, is_last_member, abort]
ParseEnumDeclaration(p, line, last_value) ==
    ParseEnumDeclarationSplit(p, SplitLineIntoTokens(line), last_value)

\* enum_defs_[name] = members; type_sizes_[name] = sizeof(int);
StoreEnumDef(p, type_name, members) ==
    [p EXCEPT !.enum_defs_ = Put(@, type_name, members),
              !.type_sizes_ = Put(@, type_name, SizeOfInt)]

\* format 1, "} alias;": t is the alias, t2 the token after it.  The tag,
\* when there is one and it differs, is stored as well.
EnumTypedefEnd(p, rnd, type_name, members, var_decl, is_decl, t, t2) ==
    IF ~t2.ok \/ CharAt(t2.token, 0) # ";"
    THEN Result(FALSE, Abort(p), rnd, t2.pos, var_decl, is_decl)
    ELSE Result(TRUE,
                IF type_name # "" /\ t.token # type_name
                THEN StoreEnumDef(StoreEnumDef(p, t.token, members),
                                  type_name, members)
                ELSE StoreEnumDef(p, t.token, members),
                rnd, t2.pos, var_decl, FALSE)

\* formats 3 and 4, "} var;": t is the variable name, a the name the type is
\* stored under
EnumVarDecl(p, src, members, var_decl, is_decl, t, a) ==
    IF a.starved THEN Result(FALSE, Starve(p), a.rnd, t.pos, var_decl, is_decl)
    ELSE VarDeclLine(StoreEnumDef(p, a.name, members), a.rnd, a.name, t.token,
                     RestOrNextLine(src, t.pos), var_decl)

\* What follows the '}' of an enum block, t being the token after the '}'.
EnumBlockEndToken(p, rnd, is_typedef, src, type_name, members, var_decl, is_decl, t) ==
    IF ~t.ok THEN Result(FALSE, Abort(p), rnd, t.pos, var_decl, is_decl)
    ELSE IF is_typedef
    THEN EnumTypedefEnd(p, rnd, type_name, members, var_decl, is_decl, t,
                        GetNextToken(src, t.pos, TRUE))
    ELSE IF CharAt(t.token, 0) = ";"
    THEN IF type_name = ""
         THEN Result(FALSE, Abort(p), rnd, t.pos, var_decl, FALSE)
         ELSE Result(TRUE, StoreEnumDef(p, type_name, members), rnd, t.pos,
                     var_decl, FALSE)
    ELSE EnumVarDecl(p, src, members, var_decl, is_decl, t,
                     NameOrAnonymous(type_name, p.enum_defs_, rnd))

\* What follows the '}' of an enum block; pos is just after the '}'.
EnumBlockEnd(p, rnd, is_typedef, src, pos, type_name, members, var_decl, is_decl) ==
    EnumBlockEndToken(p, rnd, is_typedef, src, type_name, members, var_decl,
                      is_decl, GetNextToken(src, pos, TRUE))

RECURSIVE EnumBody(_, _, _, _, _, _, _, _, _, _, _)

\* one member of the enum block: e is what ParseEnumDeclaration said of it
EnumMemberParsed(p, rnd, is_typedef, src, type_name, members, var_decl, is_decl, pos, e) ==
    IF e.abort THEN Result(FALSE, Abort(p), rnd, pos, var_decl, is_decl)
    ELSE IF ~e.ok THEN Result(FALSE, p, rnd, pos, var_decl, is_decl)
    ELSE EnumBody(p, rnd, is_typedef, src, pos, type_name,
                  Append(members, e.decl), e.last_value, e.is_last_member,
                  var_decl, is_decl)

\* GetRestLine(src, pos, line); ParseEnumDeclaration(token + " " + line, ...)
EnumMemberLine(p, rnd, is_typedef, src, type_name, members, last_value, var_decl, is_decl, token, r) ==
    EnumMemberParsed(p, rnd, is_typedef, src, type_name, members, var_decl,
                     is_decl, r.pos,
                     ParseEnumDeclaration(p, token \o " " \o r.line, last_value))

\* one turn of the while loop of ParseEnum, t being the token it read
EnumBodyToken(p, rnd, is_typedef, src, type_name, members, last_value, is_last_member, var_decl, is_decl, t) ==
    IF ~t.ok THEN Result(TRUE, p, rnd, t.pos, var_decl, is_decl)
    ELSE IF CharAt(t.token, 0) = "}"
    THEN EnumBlockEnd(p, rnd, is_typedef, src, t.pos, type_name, members,
                      var_decl, is_decl)
    ELSE IF is_last_member
    THEN Result(FALSE, p, rnd, t.pos, var_decl, is_decl)
    ELSE EnumMemberLine(p, rnd, is_typedef, src, type_name, members,
                        last_value, var_decl, is_decl, t.token,
                        GetRestLine(src, t.pos))

\* The while loop of ParseEnum.
EnumBody(p, rnd, is_typedef, src, pos, type_name, members, last_value, is_last_member, var_decl, is_decl) ==
    EnumBodyToken(p, rnd, is_typedef, src, type_name, members, last_value,
                  is_last_member, var_decl, is_decl,
                  GetNextToken(src, pos, TRUE))

\* The peek ParseEnum and ParseStructUnion take at the rest of the line, to
\* see whether it declares a variable of an aggregate type: [pos, abort, ok,
\* decl]
PeekResult(pos, d) ==
    [pos |-> pos, abort |-> d.abort, ok |-> d.ok, decl |-> d.decl]

PeekLine(p, r, var_decl) ==
    IF r.abort
    THEN [pos |-> r.pos, abort |-> TRUE, ok |-> FALSE, decl |-> var_decl]
    ELSE PeekResult(r.pos, ParseDeclaration(p, r.line, var_decl))

PeekDeclaration(p, src, pos, var_decl) ==
    PeekLine(p, RestOrNextLine(src, pos), var_decl)

\* The tokens that open a block, "{" or "name {": [ok, pos, type_name]
BlockOpenNamed(t, t2) ==
    [ok |-> t2.ok /\ CharAt(t2.token, 0) = "{", pos |-> t2.pos,
     type_name |-> t.token]

BlockOpenToken(src, t) ==
    IF ~t.ok THEN [ok |-> FALSE, pos |-> t.pos, type_name |-> ""]
    ELSE IF CharAt(t.token, 0) = "{"
    THEN [ok |-> TRUE, pos |-> t.pos, type_name |-> ""]
    ELSE BlockOpenNamed(t, GetNextToken(src, t.pos, TRUE))

BlockOpen(src, pos) == BlockOpenToken(src, GetNextToken(src, pos, TRUE))

\* ParseEnum once the block is open
ParseEnumOpened(p, rnd, is_typedef, src, var_decl, is_decl, b) ==
    IF ~b.ok THEN Result(FALSE, Abort(p), rnd, b.pos, var_decl, is_decl)
    ELSE EnumBody(p, rnd, is_typedef, src, b.pos, b.type_name, <<>>, -1,
                  FALSE, var_decl, is_decl)

\* ParseEnum after the peek k at the rest of the line
ParseEnumPeeked(p, rnd, is_typedef, src, pos, is_decl, k) ==
    IF k.abort THEN Result(FALSE, Abort(p), rnd, k.pos, k.decl, is_decl)
    ELSE IF k.ok THEN Result(TRUE, p, rnd, k.pos, k.decl, TRUE)
    ELSE ParseEnumOpened(p, rnd, is_typedef, src, k.decl, is_decl,
                         BlockOpen(src, pos))

\* bool ParseEnum(is_typedef, src, pos, var_decl, is_decl)
ParseEnum(p, rnd, is_typedef, src, pos, var_decl, is_decl) ==
    IF src = "" \/ pos >= Len(src)
    THEN Result(FALSE, Abort(p), rnd, pos, var_decl, is_decl)
    ELSE ParseEnumPeeked(p, rnd, is_typedef, src, pos, is_decl,
                         PeekDeclaration(p, src, pos, var_decl))

---------------------------------------------------------------------------
(* Struct/union parser *)

\* the member list as StoreStructUnionDef leaves its in/out argument
MembersAfterStore(is_struct, members) ==
    IF is_struct THEN PadStructMembers(members).members ELSE members

\* struct_defs_[type_name] = members (union_defs_ for a union);
\* type_sizes_[type_name] = type_sizes_[type_alias];
StoreTagCopy(p, is_struct, type_name, type_alias, members) ==
    IF is_struct
    THEN [p EXCEPT !.struct_defs_ = Put(@, type_name, members),
                   !.type_sizes_ = Put(@, type_name, p.type_sizes_[type_alias])]
    ELSE [p EXCEPT !.union_defs_ = Put(@, type_name, members),
                   !.type_sizes_ = Put(@, type_name, p.type_sizes_[type_alias])]

\* format 1 once the alias is stored (p), the tag being stored as well when
\* there is one and it differs
StructUnionTypedefStored(p, rnd, is_struct, type_name, type_alias, members, var_decl, pos) ==
    Result(TRUE,
           IF p.status = "run" /\ type_name # "" /\ type_alias # type_name
           THEN StoreTagCopy(p, is_struct, type_name, type_alias,
                             MembersAfterStore(is_struct, members))
           ELSE p,
           rnd, pos, var_decl, FALSE)

\* format 1, "} alias;": t is the alias, t2 the token after it
StructUnionTypedefEnd(p, rnd, is_struct, type_name, members, var_decl, is_decl, t, t2) ==
    IF ~t2.ok \/ CharAt(t2.token, 0) # ";"
    THEN Result(FALSE, Abort(p), rnd, t2.pos, var_decl, is_decl)
    ELSE StructUnionTypedefStored(
             StoreStructUnionDef(p, is_struct, t.token, members), rnd,
             is_struct, type_name, t.token, members, var_decl, t2.pos)

\* formats 3 and 4, "} var;": t is the variable name, a the name the type is
\* stored under
StructUnionVarDecl(p, src, is_struct, members, var_decl, is_decl, t, a) ==
    IF a.starved THEN Result(FALSE, Starve(p), a.rnd, t.pos, var_decl, is_decl)
    ELSE VarDeclLine(StoreStructUnionDef(p, is_struct, a.name, members),
                     a.rnd, a.name, t.token, RestOrNextLine(src, t.pos),
                     var_decl)

\* What follows the '}' of a struct/union block, t being the token after
\* the '}'.
StructUnionBlockEndToken(p, rnd, is_struct, is_typedef, src, type_name, members, var_decl, is_decl, t) ==
    IF ~t.ok THEN Result(FALSE, Abort(p), rnd, t.pos, var_decl, is_decl)
    ELSE IF is_typedef
    THEN StructUnionTypedefEnd(p, rnd, is_struct, type_name, members,
                               var_decl, is_decl, t,
                               GetNextToken(src, t.pos, TRUE))
    ELSE IF CharAt(t.token, 0) = ";"
    THEN IF type_name = ""
         THEN Result(FALSE, Abort(p), rnd, t.pos, var_decl, FALSE)
         ELSE Result(TRUE, StoreStructUnionDef(p, is_struct, type_name, members),
                     rnd, t.pos, var_decl, FALSE)
    ELSE StructUnionVarDecl(p, src, is_struct, members, var_decl, is_decl, t,
                            NameOrAnonymous(type_name, p.struct_defs_, rnd))

\* What follows the '}' of a struct/union block; pos is just after the '}'.
StructUnionBlockEnd(p, rnd, is_struct, is_typedef, src, pos, type_name, members, var_decl, is_decl) ==
    StructUnionBlockEndToken(p, rnd, is_struct, is_typedef, src, type_name,
                             members, var_decl, is_decl,
                             GetNextToken(src, pos, TRUE))

RECURSIVE ParseStructUnion(_, _, _, _, _, _, _, _)
RECURSIVE StructUnionBody(_, _, _, _, _, _, _, _, _, _, _)

\* a nested struct/union/enum member: n is what ParseStructUnion or
\* ParseEnum returned for it
StructUnionNested(is_struct, is_typedef, src, type_name, members, var_decl, n) ==
    IF n.p.status # "run" \/ ~n.ok
    THEN Result(FALSE, n.p, n.rnd, n.pos, var_decl, n.is_decl)
    ELSE IF ~n.is_decl
    THEN Result(FALSE, Abort(n.p), n.rnd, n.pos, var_decl, n.is_decl)
    ELSE StructUnionBody(n.p, n.rnd, is_struct, is_typedef, src, n.pos,
                         type_name, Append(members, n.decl), n.decl,
                         var_decl, n.is_decl)

\* a member of a plain type: d is what ParseDeclaration said of its line
StructUnionMemberParsed(p, rnd, is_struct, is_typedef, src, type_name, members, var_decl, is_decl, pos, d) ==
    IF d.abort THEN Result(FALSE, Abort(p), rnd, pos, var_decl, is_decl)
    ELSE IF ~d.ok THEN Result(FALSE, p, rnd, pos, var_decl, is_decl)
    ELSE StructUnionBody(p, rnd, is_struct, is_typedef, src, pos, type_name,
                         Append(members, d.decl), d.decl, var_decl, is_decl)

\* line = token + " " + line; ParseDeclaration(line, member), r being the
\* rest of the line after token
StructUnionMemberLine(p, rnd, is_struct, is_typedef, src, type_name, members, member, var_decl, is_decl, token, r) ==
    IF r.abort THEN Result(FALSE, Abort(p), rnd, r.pos, var_decl, is_decl)
    ELSE StructUnionMemberParsed(p, rnd, is_struct, is_typedef, src,
                                 type_name, members, var_decl, is_decl, r.pos,
                                 ParseDeclaration(p, token \o " " \o r.line,
                                                  member))

\* one turn of the while loop of ParseStructUnion, t being the token it read
StructUnionBodyToken(p, rnd, is_struct, is_typedef, src, type_name, members, member, var_decl, is_decl, t) ==
    IF ~t.ok THEN Result(TRUE, p, rnd, t.pos, var_decl, is_decl)
    ELSE IF CharAt(t.token, 0) = "}"
    THEN StructUnionBlockEnd(p, rnd, is_struct, is_typedef, src, t.pos,
                             type_name, members, var_decl, is_decl)
    ELSE IF GetTokenType(p, t.token) = "kEnumKeyword"
    THEN StructUnionNested(is_struct, is_typedef, src, type_name, members,
                           var_decl,
                           ParseEnum(p, rnd, FALSE, src, t.pos, member, is_decl))
    ELSE IF GetTokenType(p, t.token) \in {"kStructKeyword", "kUnionKeyword"}
    THEN StructUnionNested(is_struct, is_typedef, src, type_name, members,
                           var_decl,
                           ParseStructUnion(p, rnd,
                               GetTokenType(p, t.token) = "kStructKeyword",
                               FALSE, src, t.pos, member, is_decl))
    ELSE StructUnionMemberLine(p, rnd, is_struct, is_typedef, src, type_name,
                               members, member, var_decl, is_decl, t.token,
                               RestOrNextLine(src, t.pos))

\* The while loop of ParseStructUnion.  member is the local the loop
\* reuses for every member declaration.
StructUnionBody(p, rnd, is_struct, is_typedef, src, pos, type_name, members, member, var_decl, is_decl) ==
    StructUnionBodyToken(p, rnd, is_struct, is_typedef, src, type_name,
                         members, member, var_decl, is_decl,
                         GetNextToken(src, pos, TRUE))

\* ParseStructUnion once the block is open
ParseStructUnionOpened(p, rnd, is_struct, is_typedef, src, var_decl, is_decl, b) ==
    IF ~b.ok THEN Result(FALSE, Abort(p), rnd, b.pos, var_decl, is_decl)
    ELSE StructUnionBody(p, rnd, is_struct, is_typedef, src, b.pos,
                         b.type_name, <<>>, NoDecl, var_decl, is_decl)

\* ParseStructUnion after the peek k at the rest of the line
ParseStructUnionPeeked(p, rnd, is_struct, is_typedef, src, pos, is_decl, k) ==
    IF k.abort THEN Result(FALSE, Abort(p), rnd, k.pos, k.decl, is_decl)
    ELSE IF k.ok THEN Result(TRUE, p, rnd, k.pos, k.decl, TRUE)
    ELSE ParseStructUnionOpened(p, rnd, is_struct, is_typedef, src, k.decl,
                                is_decl, BlockOpen(src, pos))

\* bool ParseStructUnion(is_struct, is_typedef, src, pos, var_decl, is_decl)
ParseStructUnion(p, rnd, is_struct, is_typedef, src, pos, var_decl, is_decl) ==
    IF src = "" \/ pos >= Len(src)
    THEN Result(FALSE, Abort(p), rnd, pos, var_decl, is_decl)
    ELSE ParseStructUnionPeeked(p, rnd, is_struct, is_typedef, src, pos,
                                is_decl, PeekDeclaration(p, src, pos, var_decl))

---------------------------------------------------------------------------
(* Source parser *)

\* ParseAssignExpression with the tokens of the line and what IsNumericToken
\* says of tokens[2]
ParseAssignTokens(p, tokens, n) ==
    IF Len(tokens) = 4
       /\ CharAt(tokens[2], Len(tokens[2]) - 1) = "="
       /\ CharAt(tokens[4], Len(tokens[4]) - 1) = ";"
       /\ n.ok
    THEN [ok |-> TRUE,
          p |-> [p EXCEPT !.const_defs_ = Insert(@, tokens[1], n.number)]]
    ELSE [ok |-> FALSE, p |-> p]

ParseAssignSplit(p, tokens) ==
    ParseAssignTokens(p, tokens, IsNumericToken(p, TokenAt(tokens, 2)))

\* bool ParseAssignExpression(line): [ok, p]
ParseAssignExpression(p, line) ==
    ParseAssignSplit(p, SplitLineIntoTokens(line))

RECURSIVE ParseFile(_, _, _, _)
RECURSIVE ParseSourceLoop(_, _, _, _, _, _, _, _)

\* void ParseSource(const string &src): [p, rnd].  fs maps each readable file
\* name to the text Preprocess returns for it.
ParseSource(p, fs, rnd, src) ==
    ParseSourceLoop(p, fs, rnd, src, 0, FALSE, NoDecl, FALSE)

\* the calls of ParseFile the stack of the process holds, one inside the
\* other, before it is exhausted
MaxDepth == 6

\* the guard of ParseFile left out
NeverParsed(p, file) == FALSE

\* header_files_.find(file) != header_files_.end() && header_files_[file]
AlreadyParsed(p, file) ==
    file \in DOMAIN p.header_files_ /\ p.header_files_[file]

\* header_files_[file] = true, before the file is parsed.  parsed lists the
\* files handed to Preprocess and ParseSource, depth counts the calls of
\* ParseFile that have not returned.
EnterFile(p, file) ==
    [p EXCEPT !.header_files_ = Put(@, file, TRUE),
              !.parsed = Append(@, file),
              !.depth = @ + 1]

\* the return of ParseFile: r is what ParseSource left
LeaveFile(r) == [p |-> [r.p EXCEPT !.depth = @ - 1], rnd |-> r.rnd]

\* the stack is exhausted
Overflow(p) == [p EXCEPT !.status = "overflow"]

\* header_files_[file] = true moved after ParseSource
EnterFileUnmarked(p, file) ==
    [p EXCEPT !.parsed = Append(@, file), !.depth = @ + 1]

LeaveFileMarked(r, file) ==
    [p |-> [r.p EXCEPT !.header_files_ = Put(@, file, TRUE), !.depth = @ - 1],
     rnd |-> r.rnd]

ParseFileMarkAfter(p, fs, rnd, file) ==
    IF AlreadyParsed(p, file) THEN [p |-> p, rnd |-> rnd]
    ELSE IF file \notin DOMAIN fs THEN [p |-> p, rnd |-> rnd]
    ELSE IF p.depth >= MaxDepth THEN [p |-> Overflow(p), rnd |-> rnd]
    ELSE LeaveFileMarked(ParseSource(EnterFileUnmarked(p, file), fs, rnd, fs[file]),
                         file)

\* void ParseFile(const string &file): [p, rnd]
ParseFile(p, fs, rnd, file) ==
    IF AlreadyParsed(p, file) THEN [p |-> p, rnd |-> rnd]
    ELSE IF file \notin DOMAIN fs THEN [p |-> p, rnd |-> rnd]
    ELSE IF p.depth >= MaxDepth THEN [p |-> Overflow(p), rnd |-> rnd]
    ELSE LeaveFile(ParseSource(EnterFile(p, file), fs, rnd, fs[file]))

\* #include "file": f is what ParseFile left, pos the start of the next line
PreProcIncluded(f, pos) == [p |-> f.p, rnd |-> f.rnd, pos |-> pos]

\* #include "file": t2 is the file name
PreProcIncludeFile(p, fs, rnd, src, t2) ==
    IF ~t2.ok THEN [p |-> Abort(p), rnd |-> rnd, pos |-> t2.pos]
    ELSE PreProcIncluded(ParseFile(p, fs, rnd, t2.token),
                         SkipCurrentLine(src, t2.pos).pos)

\* #include: t1 is the token after it
PreProcInclude(p, fs, rnd, src, t1) ==
    IF ~t1.ok THEN [p |-> Abort(p), rnd |-> rnd, pos |-> t1.pos]
    ELSE IF CharAt(t1.token, Len(t1.token) - 1) = "\""
    THEN PreProcIncludeFile(p, fs, rnd, src, GetNextToken(src, t1.pos, FALSE))
    ELSE [p |-> p, rnd |-> rnd, pos |-> SkipCurrentLine(src, t1.pos).pos]

\* #define name value: t1 is the name, t2 the value, n what IsNumericToken
\* says of it
PreProcDefineValue(p, rnd, src, t1, t2, n) ==
    IF t2.ok /\ n.ok
    THEN [p |-> [p EXCEPT !.const_defs_ = Insert(@, t1.token, n.number)],
          rnd |-> rnd, pos |-> t2.pos]
    ELSE [p |-> p, rnd |-> rnd, pos |-> SkipCurrentLine(src, t2.pos).pos]

PreProcDefineName(p, rnd, src, t1, t2) ==
    PreProcDefineValue(p, rnd, src, t1, t2, IsNumericToken(p, t2.token))

\* #define: t1 is the token after it
PreProcDefine(p, rnd, src, t1) ==
    IF ~t1.ok THEN [p |-> Abort(p), rnd |-> rnd, pos |-> t1.pos]
    ELSE PreProcDefineName(p, rnd, src, t1, GetNextToken(src, t1.pos, FALSE))

\* the directive, t being the token after '#'
PreProcToken(p, fs, rnd, src, t) ==
    IF t.token = "include"
    THEN PreProcInclude(p, fs, rnd, src, GetNextToken(src, t.pos, FALSE))
    ELSE IF t.token = "define"
    THEN PreProcDefine(p, rnd, src, GetNextToken(src, t.pos, FALSE))
    ELSE [p |-> p, rnd |-> rnd, pos |-> SkipCurrentLine(src, t.pos).pos]

\* void ParsePreProcDirective(src, pos): [p, rnd, pos]; pos is just after '#'
ParsePreProcDirective(p, fs, rnd, src, pos) ==
    PreProcToken(p, fs, rnd, src, GetNextToken(src, pos, TRUE))

\* case kPoundSign: d is what ParsePreProcDirective left
ParseSourcePreProc(fs, src, is_typedef, decl, is_decl, d) ==
    ParseSourceLoop(d.p, fs, d.rnd, src, d.pos, is_typedef, decl, is_decl)

\* case kStructKeyword, kUnionKeyword: r is what ParseStructUnion returned;
\* assert(ParseStructUnion(...) && !is_decl); is_typedef = false;
ParseSourceStructUnion(fs, src, r) ==
    IF r.p.status # "run" THEN [p |-> r.p, rnd |-> r.rnd]
    ELSE IF ~r.ok \/ r.is_decl THEN [p |-> Abort(r.p), rnd |-> r.rnd]
    ELSE ParseSourceLoop(r.p, fs, r.rnd, src, r.pos, FALSE, r.decl, r.is_decl)

\* case kEnumKeyword: r is what ParseEnum returned;
\* if (!ParseEnum(...) || is_decl) return; is_typedef = false;
ParseSourceEnum(fs, src, r) ==
    IF r.p.status # "run" THEN [p |-> r.p, rnd |-> r.rnd]
    ELSE IF ~r.ok \/ r.is_decl THEN [p |-> r.p, rnd |-> r.rnd]
    ELSE ParseSourceLoop(r.p, fs, r.rnd, src, r.pos, FALSE, r.decl, r.is_decl)

\* case kBasicDataType: r is the rest of the line;
\* assert(GetRestLine(src, pos, line)); ParseAssignExpression(line);
ParseSourceAssign(p, fs, rnd, src, is_typedef, decl, is_decl, r) ==
    IF ~r.ok THEN [p |-> Abort(p), rnd |-> rnd]
    ELSE ParseSourceLoop(ParseAssignExpression(p, r.line).p, fs, rnd, src,
                         r.pos, is_typedef, decl, is_decl)

\* the parser with the call ParseSource is about to make noted in typedefs:
\* the keyword and the is_typedef argument
TopLevelCall(p, keyword, is_typedef) ==
    [p EXCEPT !.typedefs = Append(@, [keyword |-> keyword,
                                      is_typedef |-> is_typedef])]

\* the switch on a token longer than one character
ParseSourceWord(p, fs, rnd, src, is_typedef, decl, is_decl, t, type) ==
    IF type \in {"kStructKeyword", "kUnionKeyword"}
    THEN ParseSourceStructUnion(fs, src,
             ParseStructUnion(TopLevelCall(p, t.token, is_typedef), rnd,
                              type = "kStructKeyword", is_typedef,
                              src, t.pos, decl, is_decl))
    ELSE IF type = "kEnumKeyword"
    THEN ParseSourceEnum(fs, src,
             ParseEnum(TopLevelCall(p, t.token, is_typedef), rnd, is_typedef,
                       src, t.pos, decl, is_decl))
    ELSE IF type = "kTypedefKeyword"
    THEN ParseSourceLoop(p, fs, rnd, src, t.pos, TRUE, decl, is_decl)
    ELSE IF type = "kBasicDataType"
    THEN ParseSourceAssign(p, fs, rnd, src, is_typedef, decl, is_decl,
                           GetRestLine(src, t.pos))
    ELSE ParseSourceLoop(p, fs, rnd, src, t.pos, is_typedef, decl, is_decl)

\* one turn of the while loop of ParseSource, t being the token it read
ParseSourceToken(p, fs, rnd, src, is_typedef, decl, is_decl, t) ==
    IF p.status # "run" \/ ~t.ok THEN [p |-> p, rnd |-> rnd]
    ELSE IF Len(t.token) = 1
    THEN IF t.token = "#"
         THEN ParseSourcePreProc(fs, src, is_typedef, decl, is_decl,
                  ParsePreProcDirective(p, fs, rnd, src, t.pos))
         ELSE IF t.token \in {"{", "}", ";"}
         THEN ParseSourceLoop(p, fs, rnd, src, t.pos, is_typedef, decl, is_decl)
         ELSE ParseSourceLoop(p, fs, rnd, src, SkipCurrentLine(src, t.pos).pos,
                              is_typedef, decl, is_decl)
    ELSE ParseSourceWord(p, fs, rnd, src, is_typedef, decl, is_decl, t,
                         GetTokenType(p, t.token))

\* The while loop of ParseSource; is_typedef, decl and is_decl are its locals.
ParseSourceLoop(p, fs, rnd, src, pos, is_typedef, decl, is_decl) ==
    ParseSourceToken(p, fs, rnd, src, is_typedef, decl, is_decl,
                     GetNextToken(src, pos, TRUE))

---------------------------------------------------------------------------
(* DataReader.  Pointers are integer addresses, NULL is 0.  The reader      *)
(* record holds the members of the class (type_parser_, data_buffer_,       *)
(* data_size_, data_ptr_, out_stream_), the memory behind data_buffer_      *)
(* (data; junk is what a read outside the buffer yields), the diagnostics   *)
(* written through Error/Debug (diag), and a history of the walk that the   *)
(* properties below are stated on: reads (every string(data_ptr_, len),    *)
(* with whether the call logged 'bad data offset', the integer it decoded  *)
(* and the text it wrote),                                                  *)
(* prepared (every PrepareTypeData that found its type), visits (every      *)
(* member PrintMemberData went through), elems (every array element),       *)
(* calls (the number of PrintMemberData calls so far), report (every       *)
(* out_stream_.str() PrintTypeData wrote to cout).  status is "run" until  *)
(* an exception nothing catches ends the program; null_throws is whether   *)
(* the library throws on string(NULL, len).                                 *)

NULL == 0
TAB_WIDTH == 4

\* DataReader(const TypeParser& parser, const string &data_file): the parser
\* is copied; ReadData loads the file at address addr
DataReaderFromFile(p, addr, bytes, junk) ==
    [ type_parser_ |-> p,
      data_buffer_ |-> addr,
      data_size_ |-> Len(bytes),
      data_ptr_ |-> addr,
      out_stream_ |-> "",
      data |-> bytes, junk |-> junk, null_throws |-> FALSE, status |-> "run",
      diag |-> <<>>, reads |-> <<>>, visits |-> <<>>, elems |-> <<>>,
      prepared |-> <<>>, calls |-> 0, report |-> <<>> ]

\* DataReader(const TypeParser& parser, char* buffer, size_t size): the
\* caller's buffer of bytes at address addr
DataReaderFromBuffer(p, addr, bytes, junk, null_throws) ==
    [ type_parser_ |-> p,
      data_buffer_ |-> addr,
      data_size_ |-> Len(bytes),
      data_ptr_ |-> NULL,
      out_stream_ |-> "",
      data |-> bytes, junk |-> junk, null_throws |-> null_throws,
      status |-> "run",
      diag |-> <<>>, reads |-> <<>>, visits |-> <<>>, elems |-> <<>>,
      prepared |-> <<>>, calls |-> 0, report |-> <<>> ]

\* the reader before it exists
NoReader == [ data_buffer_ |-> NULL ]

\* the byte at address a
Mem(d, a) ==
    LET off == a - d.data_buffer_ IN
    IF d.data_buffer_ # NULL /\ off >= 0 /\ off < Len(d.data)
    THEN d.data[off + 1] ELSE d.junk

\* string(data_ptr_, len)
ReadBytes(d, len) == [i \in 1..len |-> Mem(d, d.data_ptr_ + i - 1)]

HexChars == "0123456789abcdef"
HexByte(b) == CharAt(HexChars, b \div 16) \o CharAt(HexChars, b % 16)

\* tohex(data): most significant (last) byte first
RECURSIVE HexDigitsOf(_, _)
HexDigitsOf(data, i) ==
    IF i = 0 THEN "" ELSE HexByte(data[i]) \o HexDigitsOf(data, i - 1)

tohex(data) == "0x" \o HexDigitsOf(data, Len(data))

\* int int_value = strtol(hex_value.c_str(), NULL, 16), for a long of 64
\* bits: LONG_MAX when the number does not fit, then cut to its low 32 bits
IntValueOf(data) ==
    LET B(i) == IF i <= Len(data) THEN data[i] ELSE 0
        fits == /\ \A i \in 1..Len(data) : i > 8 => data[i] = 0
                /\ B(8) < 128
    IN IF fits
       THEN B(1) + 256 * B(2) + 65536 * B(3)
              + 16777216 * (IF B(4) >= 128 THEN B(4) - 256 ELSE B(4))
       ELSE -1

RECURSIVE Spaces(_)
Spaces(n) == IF n <= 0 THEN "" ELSE " " \o Spaces(n - 1)

\* out_stream_ << setw(TAB_WIDTH * indent) << ' '
FORMAT_OUTPUT(indent) == Spaces(Max(TAB_WIDTH * indent, 1))

\* setw(3) << int_value
SetW3(v) == LET t == ToString(v) IN Spaces(3 - Len(t)) \o t

\* (char) c: the characters 32..95 and 97..126 as themselves; a byte outside
\* that range (and the grave accent, 96) is written as \x.. in the model
PrintableLow == " !\"#$%&'()*+,-./0123456789:;<=>?@ABCDEFGHIJKLMNOPQRSTUVWXYZ[\\]^_"
PrintableHigh == "abcdefghijklmnopqrstuvwxyz{|}~"
CharOf(c) ==
    LET b == c % 256 IN
    IF b >= 32 /\ b <= 95 THEN CharAt(PrintableLow, b - 32)
    ELSE IF b >= 97 /\ b <= 126 THEN CharAt(PrintableHigh, b - 97)
    ELSE "\\x" \o HexByte(b)

\* the label of the last pair of enums whose value is int_value
RECURSIVE LastEnumLabel(_, _)
LastEnumLabel(enums, int_value) ==
    IF enums = <<>> THEN "Unknown"
    ELSE IF enums[Len(enums)][2] = int_value THEN enums[Len(enums)][1]
    ELSE LastEnumLabel(SubSeq(enums, 1, Len(enums) - 1), int_value)

\* the label of the first pair of enums whose value is int_value
RECURSIVE EnumLabel(_, _)
EnumLabel(enums, int_value) ==
    IF enums = <<>> THEN "Unknown"
    ELSE IF Head(enums)[2] = int_value THEN Head(enums)[1]
    ELSE EnumLabel(Tail(enums), int_value)

\* what PrintVarValue writes after the hex value: the enum label, the
\* character of a char, or nothing
ValueTail(p, var_decl, is_union, int_value) ==
    IF ~is_union /\ var_decl.data_type \in DOMAIN p.enum_defs_
    THEN ", " \o EnumLabel(p.enum_defs_[var_decl.data_type], int_value)
    ELSE IF var_decl.data_type = "char" /\ int_value # 0
    THEN ", '" \o CharOf(int_value) \o "'"
    ELSE ""

\* if (!is_union) { data_ptr_ += len; if (...) Debug("bad data offset"); }
\* read is the entry of the history for the call
PrintVarValueEnd(d, is_union, len, text, read) ==
    IF is_union
    THEN [d EXCEPT !.out_stream_ = @ \o text, !.reads = Append(@, read)]
    ELSE [d EXCEPT !.out_stream_ = @ \o text,
                   !.reads = Append(@, read),
                   !.data_ptr_ = @ + len,
                   !.diag = IF read.bad_data_offset
                            THEN Append(@, "bad data offset") ELSE @]

\* PrintVarValue once the line it writes is known
PrintVarValueText(d, var_decl, is_union, len, int_value, text) ==
    PrintVarValueEnd(d, is_union, len, text,
                     [ptr |-> d.data_ptr_, len |-> len, is_union |-> is_union,
                      bad_data_offset |->
                          /\ ~is_union
                          /\ ~UnsignedGE(d.data_size_,
                                         d.data_ptr_ + len - d.data_buffer_),
                      data_type |-> var_decl.data_type,
                      int_value |-> int_value, text |-> text])

\* PrintVarValue once hex_value and int_value are known
PrintVarValueInt(d, var_decl, is_union, len, hex_value, int_value) ==
    PrintVarValueText(d, var_decl, is_union, len, int_value,
                      SetW3(int_value) \o ", " \o hex_value
                          \o ValueTail(d.type_parser_, var_decl, is_union, int_value)
                          \o "\n")

\* PrintVarValue once data = string(data_ptr_, len) is read
PrintVarValueData(d, var_decl, is_union, data) ==
    PrintVarValueInt(d, var_decl, is_union, Len(data), tohex(data),
                     IntValueOf(data))

\* void PrintVarValue(var_decl, indent, is_union)
\* string(data_ptr_, len) with data_ptr_ == NULL and len > 0 has no defined
\* behaviour: the library either throws std::logic_error, which nothing
\* catches, or reads whatever is at address 0
NullRead(d, var_decl) ==
    /\ d.data_ptr_ = NULL
    /\ (var_decl.data_type = "char" \/ var_decl.var_size > 0)

PrintVarValue(d, var_decl, indent, is_union) ==
    IF NullRead(d, var_decl) /\ d.null_throws
    THEN [d EXCEPT !.status = "abort"]
    ELSE PrintVarValueData(d, var_decl, is_union,
                           ReadBytes(d, IF var_decl.data_type = "char" THEN 1
                                        ELSE var_decl.var_size))

\* sizeof(std::string), the length PrepareTypeData compares over
SizeOfString == 32

RECURSIVE PrepareTypeData(_, _, _, _)
RECURSIVE MemberLoop(_, _, _, _, _, _, _)
RECURSIVE ArrayLoop(_, _, _, _, _, _)

\* void PrintVarData(var_decl, indent, is_union)
PrintVarData(d, var_decl, indent, is_union) ==
    LET type == GetTokenType(d.type_parser_, var_decl.data_type) IN
    IF type = "kBasicDataType" THEN PrintVarValue(d, var_decl, indent, is_union)
    ELSE IF type = "kStructName"
    THEN PrepareTypeData(d, var_decl.data_type, indent, FALSE)
    ELSE IF type = "kUnionName"
    THEN PrepareTypeData(d, var_decl.data_type, indent, TRUE)
    ELSE IF type = "kEnumName" THEN PrintVarValue(d, var_decl, indent, FALSE)
    ELSE [d EXCEPT !.diag = Append(@, "Unresolved data type - " \o var_decl.data_type)]

\* PrintMemberData without the reset of the cursor
MemberStartNoReset(is_union, union_addr, data_ptr) == data_ptr

\* if (is_union) data_ptr_ = union_addr;
MemberStart(is_union, union_addr, data_ptr) ==
    IF is_union THEN union_addr ELSE data_ptr

\* one turn of the array loop done: d2 is the reader after PrintVarData
ArrayElement(d, d2, var_decl, i, indent, call, idx) ==
    ArrayLoop([d2 EXCEPT !.elems =
                   Append(@, [call |-> call, idx |-> idx, i |-> i,
                              decl |-> var_decl, from |-> d.data_ptr_,
                              to |-> d2.data_ptr_])],
              var_decl, i + 1, indent, call, idx)

\* for (size_t i = 0; i < var_decl.array_size; i++) of PrintMemberData, with
\* indent already incremented; call and idx name the member for the history
ArrayLoop(d, var_decl, i, indent, call, idx) ==
    IF i >= var_decl.array_size \/ d.status # "run" THEN d
    ELSE ArrayElement(d,
                      PrintVarData([d EXCEPT !.out_stream_ =
                                       @ \o FORMAT_OUTPUT(indent) \o "["
                                         \o ToString(i) \o "] = "],
                                   var_decl, indent, FALSE),
                      var_decl, i, indent, call, idx)

\* the array branch of PrintMemberData: a1 is the reader after the loop
ArrayMember(a1, indent) ==
    [a1 EXCEPT !.out_stream_ = @ \o FORMAT_OUTPUT(indent + 1) \o "]\n"]

\* the else branch of the loop body of PrintMemberData, entered with the
\* cursor at the start of the member
MemberData(d0, var_decl, indent, is_union, call, idx) ==
    IF var_decl.array_size # 0
    THEN ArrayMember(ArrayLoop([d0 EXCEPT !.out_stream_ =
                                   @ \o FORMAT_OUTPUT(indent)
                                     \o var_decl.var_name \o " = [\n"],
                               var_decl, 0, indent + 1, call, idx),
                     indent)
    ELSE PrintVarData([d0 EXCEPT !.out_stream_ =
                          @ \o FORMAT_OUTPUT(indent) \o var_decl.var_name
                            \o " = "],
                      var_decl, indent, is_union)

\* one turn of the member loop done: start is where the member began, d1
\* the reader after it
MemberVisited(d, start, d1, members, idx, indent, is_union, union_addr, call) ==
    MemberLoop([d1 EXCEPT !.visits =
                   Append(@, [call |-> call, idx |-> idx, decl |-> members[idx],
                              is_union |-> is_union, union_addr |-> union_addr,
                              from |-> d.data_ptr_, start |-> start,
                              to |-> d1.data_ptr_,
                              diags |-> Len(d1.diag) - Len(d.diag)])],
               members, idx + 1, indent, is_union, union_addr, call)

\* while (!members.empty()) of PrintMemberData; idx is the 1-based place of
\* members.front() in the list the call received
MemberLoop(d, members, idx, indent, is_union, union_addr, call) ==
    IF idx > Len(members) \/ d.status # "run" THEN d
    ELSE IF ~is_union /\ members[idx].var_name = kPaddingFieldName
    THEN MemberVisited(d, d.data_ptr_,
                       [d EXCEPT !.data_ptr_ = @ + members[idx].var_size],
                       members, idx, indent, is_union, union_addr, call)
    ELSE MemberVisited(d, MemberStart(is_union, union_addr, d.data_ptr_),
                       MemberData([d EXCEPT !.data_ptr_ =
                                      MemberStart(is_union, union_addr, @)],
                                  members[idx], indent, is_union, call, idx),
                       members, idx, indent, is_union, union_addr, call)

\* void PrintMemberData(members, indent, is_union)
PrintMemberData(d, members, indent, is_union) ==
    LET d1 == [d EXCEPT !.calls = @ + 1] IN
    MemberLoop(d1, members, 1, indent, is_union, d.data_ptr_, d1.calls)

\* void PrepareTypeData(type_name, indent, is_union)
PrepareTypeData(d, type_name, indent, is_union) ==
    LET p == d.type_parser_
        in_union == is_union /\ type_name \in DOMAIN p.union_defs_
        in_struct == type_name \in DOMAIN p.struct_defs_
    IN
    IF ~in_union /\ ~in_struct
    THEN [d EXCEPT !.diag = Append(@, "Unknown struct/union: " \o type_name)]
    ELSE
    LET members == IF in_union THEN p.union_defs_[type_name]
                   ELSE p.struct_defs_[type_name]
        size == IF type_name \in DOMAIN p.type_sizes_
                THEN p.type_sizes_[type_name] ELSE 0
        kind == IF is_union THEN "union " ELSE "struct "
        header == IF Substr(type_name, 0, SizeOfString) = kAnonymousTypePrefix
                  THEN kind \o "{\n"
                  ELSE kind \o type_name \o " {\n"
        d1 == [d EXCEPT
                 !.diag = IF indent = 0 /\ size # d.data_size_
                          THEN Append(@, "The buffer size is not the same as size of the type - "
                                         \o type_name)
                          ELSE @,
                 !.out_stream_ = @ \o header,
                 !.prepared = Append(@, [type_name |-> type_name, indent |-> indent,
                                         is_union |-> is_union,
                                         from_union_defs |-> in_union,
                                         at |-> d.data_ptr_,
                                         header |-> header])]
        d2 == PrintMemberData(d1, members, indent + 1, is_union)
    IN [d2 EXCEPT !.out_stream_ = @ \o FORMAT_OUTPUT(indent) \o "}\n"]

\* void PrintTypeData(type_name, is_union = false)
\* cout << out_stream_.str() << endl, d1 being what PrepareTypeData left;
\* a run that ended inside PrepareTypeData writes no report
PrintTypeDataEnd(d, d1) ==
    IF d1.status # "run"
    THEN [d EXCEPT !.status = d1.status, !.diag = d1.diag]
    ELSE [d1 EXCEPT !.report = Append(@, d1.out_stream_)]

PrintTypeData(d, type_name, is_union) ==
    PrintTypeDataEnd(d, PrepareTypeData(d, type_name, 0, is_union))

---------------------------------------------------------------------------
(* Preprocess: comments stripped, wrapped lines joined, the lines merged   *)
(* into the source text                                                    *)

\* s.find(str, pos); pos = npos stands for the largest size_t
RECURSIVE FindStr(_, _, _)
FindStr(s, str, pos) ==
    IF pos = npos \/ pos + Len(str) > Len(s) THEN npos
    ELSE IF Substr(s, pos, Len(str)) = str THEN pos
    ELSE FindStr(s, str, pos + 1)

\* s.find(ch, pos) with pos possibly npos
FindFrom(s, ch, pos) == IF pos = npos THEN npos ELSE Find(s, ch, pos)

\* s.erase(pos, n) and s.erase(pos)
Erase(s, pos, n) == Substr(s, 0, pos) \o SubstrFrom(s, pos + n)
EraseFrom(s, pos) == Substr(s, 0, pos)

\* The do/while of StripComments, entered with pos at a "/*":
\*   do { found = line.find("*/", pos + 2); ... }
\*   while (!is_block && string::npos != (pos = line.find("/*", pos)));
\* The result holds the line, pos as the loop leaves it and is_block.
RECURSIVE BlockLoop(_, _)

BlockLoopNext(line, next) ==
    IF next # npos THEN BlockLoop(line, next)
    ELSE [line |-> line, pos |-> npos, is_block |-> FALSE]

BlockLoopErased(line, pos) == BlockLoopNext(line, FindStr(line, "/*", pos))

BlockLoopFound(line, pos, found) ==
    IF found # npos THEN BlockLoopErased(Erase(line, pos, found - pos + 2), pos)
    ELSE [line |-> EraseFrom(line, pos), pos |-> pos, is_block |-> TRUE]

BlockLoop(line, pos) == BlockLoopFound(line, pos, FindStr(line, "*/", pos + 2))

\* while (string::npos != (pos = line.find(kSlash, pos))) of StripComments:
\* the line, is_block and is_changed as the loop leaves them
RECURSIVE ScanLine(_, _, _, _)

ScanBlock(b) == ScanLine(b.line, b.pos, b.is_block, TRUE)

ScanAt(line, pos, is_block, is_changed) ==
    IF pos = npos \/ Len(line) <= pos + 1
    THEN [line |-> line, is_block |-> is_block, is_changed |-> is_changed]
    ELSE IF CharAt(line, pos + 1) = "/"
    THEN ScanLine(EraseFrom(line, pos), pos, is_block, TRUE)
    ELSE IF CharAt(line, pos + 1) = "*"
    THEN ScanBlock(BlockLoop(line, pos))
    ELSE ScanLine(line, pos + 1, is_block, is_changed)

ScanLine(line, pos, is_block, is_changed) ==
    ScanAt(line, FindFrom(line, "/", pos), is_block, is_changed)

\* void StripComments(list<string>& lines): the list as the call leaves it.
\* it is the 1-based place of the iterator, Len(lines) + 1 being end().
RECURSIVE StripFrom(_, _)
RECURSIVE BlockScan(_, _, _)

\* lines.erase(block_start, ++it); line.erase(0, pos + 2);
\* if (!line.empty()) it = lines.insert(it, line);
BlockClosed(lines, block_start, it, rest) ==
    StripFrom(SubSeq(lines, 1, block_start - 1)
                  \o (IF rest # "" THEN <<rest>> ELSE <<>>)
                  \o SubSeq(lines, it + 1, Len(lines)),
              block_start)

BlockScanAt(lines, block_start, it, pos) ==
    IF pos = npos THEN BlockScan(lines, block_start, it + 1)
    ELSE BlockClosed(lines, block_start, it, SubstrFrom(lines[it], pos + 2))

\* while (it != lines.end()) looking for the end of the block; an unclosed
\* block leaves the lines after its start in the list
BlockScan(lines, block_start, it) ==
    IF it > Len(lines) THEN lines
    ELSE BlockScanAt(lines, block_start, it, FindStr(lines[it], "*/", 0))

\* if (!line.empty()) lines.insert(it, line); it = lines.erase(it);
StripChanged(lines, it, s) ==
    IF s.line # ""
    THEN IF s.is_block
         THEN BlockScan([lines EXCEPT ![it] = s.line], it + 1, it + 1)
         ELSE StripFrom([lines EXCEPT ![it] = s.line], it + 1)
    ELSE IF s.is_block
         THEN BlockScan(SubSeq(lines, 1, it - 1) \o SubSeq(lines, it + 1, Len(lines)),
                        it, it)
         ELSE StripFrom(SubSeq(lines, 1, it - 1) \o SubSeq(lines, it + 1, Len(lines)),
                        it)

StripScanned(lines, it, s) ==
    IF ~s.is_changed THEN StripFrom(lines, it + 1)
    ELSE StripChanged(lines, it, s)

StripFrom(lines, it) ==
    IF it > Len(lines) THEN lines
    ELSE StripScanned(lines, it, ScanLine(lines[it], 0, FALSE, FALSE))

StripComments(lines) == StripFrom(lines, 1)

\* void WrapLines(list<string>& lines): a line ending in '\' is joined with
\* the next one; a wrap at the last line stops the loop
RECURSIVE WrapFrom(_, _)
RECURSIVE WrapGroup(_, _, _, _)
WrapGroup(lines, first, it, line) ==
    IF CharAt(line, Len(line) - 1) = "\\"
    THEN IF it + 1 > Len(lines) THEN lines
         ELSE WrapGroup(lines, first, it + 1,
                        rtrim(Substr(line, 0, Len(line) - 1)) \o lines[it + 1])
    ELSE IF it # first
    THEN WrapFrom(SubSeq(lines, 1, first - 1) \o <<line>>
                      \o SubSeq(lines, it + 1, Len(lines)),
                  first + 1)
    ELSE WrapFrom(lines, first + 1)

WrapFrom(lines, first) ==
    IF first > Len(lines) THEN lines
    ELSE WrapGroup(lines, first, first, lines[first])

WrapLines(lines) == WrapFrom(lines, 1)

\* the while of Preprocess: the lines of the file, trimmed, the empty ones
\* left out
RECURSIVE TrimmedLines(_)
TrimmedLines(lines) ==
    IF lines = <<>> THEN <<>>
    ELSE (IF trim(Head(lines)) # "" THEN <<trim(Head(lines))>> ELSE <<>>)
         \o TrimmedLines(Tail(lines))

\* the inner while of MergeAllLines: a line is cut after every ',' or ';'
\* that is not its last character
RECURSIVE SplitLine(_)
SplitLine(line) ==
    LET pos == FindFirstOf(line, {",", ";"}, 0) IN
    IF pos = npos \/ pos = Len(line) - 1 THEN line \o EOL
    ELSE trim(Substr(line, 0, pos + 1)) \o EOL \o SplitLine(SubstrFrom(line, pos + 1))

\* string MergeAllLines(const list<string> &lines)
RECURSIVE MergeAllLines(_)
MergeAllLines(lines) ==
    IF lines = <<>> THEN ""
    ELSE (IF CharAt(Head(lines), 0) = "#" THEN Head(lines) \o EOL
          ELSE SplitLine(Head(lines)))
         \o MergeAllLines(Tail(lines))

\* string Preprocess(ifstream& ifs), on the lines of the file
Preprocess(lines) ==
    MergeAllLines(WrapLines(StripComments(TrimmedLines(lines))))

---------------------------------------------------------------------------
(* The runs: what main() does with the two objects.  The header files of   *)
(* the include path are parsed, a reader is built on a data file, and      *)
(* types are decoded.                                                       *)

MaxFiles == 2       \* header files parsed before a run stops parsing
MaxDecodes == 1     \* PrintTypeData calls of a run
MaxBytes == 8       \* length of the data file
MaxMembers == 3     \* length of a member list handed to StoreStructUnionDef

\* The header files of the include path, each as its lines without comments.
HeaderLines ==
    "e.h" :> <<"enum E {", "A = 1,", "B", "};">>
 @@ "s.h" :> <<"struct S {", "char a;", "int b;", "};">>
 @@ "v.h" :> <<"#include \"e.h\"",
               "union V {", "int x;", "short y;", "};",
               "union W {", "E e;", "int x;", "};">>
 @@ "t.h" :> <<"#include \"v.h\"",
               "struct T {", "V v;", "int z;", "};",
               "struct T2 {", "W w;", "int z;", "};">>
 @@ "y.h" :> <<"#include \"s.h\"",
               "union Y {", "S s;", "int k[2];", "char c;", "};",
               "struct T3 {", "Y y;", "int z;", "};">>
 @@ "a.h" :> <<"struct Arr {", "int a[2];", "char c;", "};",
               "struct P {", "char *p;", "int n;", "};">>
 @@ "u.h" :> <<"typedef union {", "int b;", "} S;">>
 @@ "bt.h" :> <<"struct B1 {", "int a;", "};",
                "Foo bar;",
                "struct B3 {", "int c;", "};">>
 @@ "bi.h" :> <<"struct B2 {", "Foo x;", "int y;", "};",
                "struct B4 {", "int d;", "};">>
 @@ "mt.h" :> <<"struct M1 {", "int a;", "};",
                "int a, b;",
                "struct M3 {", "int c;", "};">>
 @@ "mi.h" :> <<"struct M2 {", "int a, b;", "int y;", "};",
                "struct M4 {", "int d;", "};">>
 @@ "fw.h" :> <<"struct Foo;", "struct After {", "int z;", "};">>

\* the file system: what Preprocess returns for each file
Files == [f \in DOMAIN HeaderLines |-> Preprocess(HeaderLines[f])]

\* the values rands() returns, in order
RandStream == <<"1804289383", "846930886">>

\* declarations by their parts: the type name, whether the declarator is a
\* pointer, and the array length (0: not an array)
DeclTypes == {"int", "char", "void", "S", "E", "Foo"}
DeclForms == [type : DeclTypes, pointer : BOOLEAN, n : {0, 2, 3}]

\* the statement `T name;`, `T name[N];`, `T *name;` or `T *name[N];`
DeclText(f) ==
    f.type \o (IF f.pointer THEN " *" ELSE " ") \o "v"
        \o (IF f.n = 2 THEN "[2]" ELSE IF f.n = 3 THEN "[3]" ELSE "") \o ";"

\* statements of fewer than 3 tokens
ShortStatements == {"x;", "Foo;", ";"}

\* lines handed to ParseDeclaration directly
DeclLines ==
    {"int a;", "char *p;", "int a[2];", "S s;", "Foo bar;", "Foo *q;", "void v;"}
        \cup {DeclText(f) : f \in DeclForms} \cup ShortStatements

\* the address operator new returns for the data buffer
BufferAddr == 4096

\* data files: MaxBytes bytes, counting up from 1 or from 'A', and a file
\* that ends after a quarter of that
Buffers ==
    {[i \in 1..MaxBytes |-> i], [i \in 1..MaxBytes |-> 64 + i],
     [i \in 1..(MaxBytes \div 4) |-> i]}

\* what the bytes outside the buffer hold
JunkBytes == {0, 255}

\* member lines of an aggregate, and the lists StoreStructUnionDef is
\* handed in the layout runs: descriptors as ParseDeclaration returns them
MemberLines ==
    {"char c;", "short h;", "int i;", "char a[3];", "char b[5];", "int k[2];",
     "char *p;"}
MemberDecls ==
    {ParseDeclaration(Initialize, line, NoDecl).decl : line \in MemberLines}
MemberLists == UNION {[1..n -> MemberDecls] : n \in 0..MaxMembers}

NoRet == [op |-> "none"]

Init ==
    /\ tp = Initialize
    /\ dr = NoReader
    /\ env = [fs |-> Files, rnd |-> RandStream, members |-> <<>>]
    /\ ret = NoRet

\* parser.ParseFile(file)
ParseFileAct(file) ==
    /\ tp.status = "run"
    /\ dr = NoReader
    /\ Cardinality(DOMAIN tp.header_files_) < MaxFiles
    /\ LET r == ParseFile(tp, env.fs, env.rnd, file) IN
       /\ tp' = r.p
       /\ env' = [env EXCEPT !.rnd = r.rnd]
    /\ ret' = [op |-> "ParseFile", file |-> file, before |-> tp, rnd |-> env.rnd]
    /\ UNCHANGED dr

\* parser.ParseDeclaration(line, decl)
ParseDeclarationAct(line) ==
    /\ tp.status = "run"
    /\ dr = NoReader
    /\ LET r == ParseDeclaration(tp, line, NoDecl) IN
       /\ tp' = IF r.abort THEN Abort(tp) ELSE tp
       /\ ret' = [op |-> "ParseDeclaration", line |-> line, ok |-> r.ok,
                  decl |-> r.decl, before |-> tp]
    /\ UNCHANGED <<dr, env>>

\* DataReader reader(parser, data_file)
DataReaderAct(bytes, junk) ==
    /\ tp.status = "run"
    /\ dr = NoReader
    /\ dr' = DataReaderFromFile(tp, BufferAddr, bytes, junk)
    /\ ret' = [op |-> "DataReader"]
    /\ UNCHANGED <<tp, env>>

\* the names a decode is asked for: every registered type name and one
\* that is not registered
DecodeNames(p) ==
    DOMAIN p.struct_defs_ \cup DOMAIN p.union_defs_ \cup DOMAIN p.enum_defs_
        \cup {"Nope"}

\* reader.PrintTypeData(type_name, is_union)
PrintTypeDataAct(type_name, is_union) ==
    /\ dr # NoReader
    /\ dr.status = "run"
    /\ Len(dr.report) < MaxDecodes
    /\ dr' = PrintTypeData(dr, type_name, is_union)
    /\ ret' = [op |-> "PrintTypeData", type_name |-> type_name,
               is_union |-> is_union, before |-> dr]
    /\ UNCHANGED <<tp, env>>

Next ==
    \/ \E file \in DOMAIN env.fs : ParseFileAct(file)
    \/ \E line \in DeclLines : ParseDeclarationAct(line)
    \/ \E bytes \in Buffers, junk \in JunkBytes : DataReaderAct(bytes, junk)
    \/ \E type_name \in DecodeNames(tp), is_union \in BOOLEAN :
           PrintTypeDataAct(type_name, is_union)

Spec == Init /\ [][Next]_vars

\* The layout runs: one member list, handed to StoreStructUnionDef.
InitLayout ==
    /\ tp = Initialize
    /\ dr = NoReader
    /\ env \in {[fs |-> <<>>, rnd |-> <<>>, members |-> m] : m \in MemberLists}
    /\ ret = NoRet

\* parser.StoreStructUnionDef(is_struct, type_name, members)
StoreStructUnionDefAct(is_struct, type_name) ==
    /\ ret = NoRet
    /\ tp' = StoreStructUnionDef(tp, is_struct, type_name, env.members)
    /\ ret' = [op |-> "StoreStructUnionDef", is_struct |-> is_struct,
               type_name |-> type_name, members |-> env.members]
    /\ UNCHANGED <<dr, env>>

NextLayout == \E is_struct \in BOOLEAN : StoreStructUnionDefAct(is_struct, "T")

SpecLayout == InitLayout /\ [][NextLayout]_vars

----------------------------------------------------------------------------
(* The runs on headers with anonymous types.  rands() seeds the generator  *)
(* with the current second on every call, so consecutive calls within one  *)
(* second return the same value.                                            *)

AnonHeaderLines ==
    "an.h" :> <<"struct O1 {",
                "struct {", "int a;", "} x;",
                "struct {", "int a;", "} y;",
                "};">>
 @@ "au.h" :> <<"struct O2 {",
                "union {", "int a;", "} u;",
                "union {", "short b;", "} v;",
                "};">>
 @@ "ae.h" :> <<"struct O3 {",
                "union {", "int a;", "} u;",
                "enum {", "P,", "Q", "} e;",
                "struct {", "int c;", "} s;",
                "};">>
 @@ "et.h" :> <<"enum {", "P,", "Q", "} e1;">>

AnonFiles == [f \in DOMAIN AnonHeaderLines |-> Preprocess(AnonHeaderLines[f])]

\* the values rands() returns, in order, in runs of different timing
RandStreams ==
    { <<"1804289383", "846930886", "1681692777">>,
      <<"1804289383", "1804289383", "846930886">>,
      <<"1804289383", "1804289383", "1804289383">> }

InitAnon ==
    /\ tp = Initialize
    /\ dr = NoReader
    /\ env \in {[fs |-> AnonFiles, rnd |-> r, members |-> <<>>] : r \in RandStreams}
    /\ ret = NoRet

SpecAnon == InitAnon /\ [][Next]_vars

----------------------------------------------------------------------------
(* The runs on headers that include one another: a diamond (d.h reaches    *)
(* e.h through l.h and through r.h), a cycle of two files, a file that     *)
(* includes itself and an include of a file that does not exist.           *)

IncludeHeaderLines ==
    "e.h" :> <<"enum E {", "A = 1,", "B", "};">>
 @@ "l.h" :> <<"#include \"e.h\"", "struct L {", "E x;", "};">>
 @@ "r.h" :> <<"#include \"e.h\"", "struct R {", "E y;", "};">>
 @@ "d.h" :> <<"#include \"l.h\"", "#include \"r.h\"", "#include \"none.h\"",
               "struct D {", "L l;", "R r;", "};">>
 @@ "c1.h" :> <<"#include \"c2.h\"", "struct C1 {", "int a;", "};">>
 @@ "c2.h" :> <<"struct C2 {", "int b;", "};", "#include \"c1.h\"",
                "struct C3 {", "C2 c;", "};">>
 @@ "self.h" :> <<"#include \"self.h\"", "struct SF {", "int a;", "};">>

IncludeFiles ==
    [f \in DOMAIN IncludeHeaderLines |-> Preprocess(IncludeHeaderLines[f])]

InitInclude ==
    /\ tp = Initialize
    /\ dr = NoReader
    /\ env = [fs |-> IncludeFiles, rnd |-> RandStream, members |-> <<>>]
    /\ ret = NoRet

SpecInclude == InitInclude /\ [][Next]_vars

----------------------------------------------------------------------------
(* The runs of StripComments: a list of trimmed, non-empty lines, as       *)
(* Preprocess hands it over, is stripped of its comments.                  *)

MaxLines == 3       \* lines of a list handed to StripComments

CommentLines ==
    { "a; // c",                   \* a line comment after code
      "x /*c*/ y /*d*/ z",         \* several block comments on one line
      "p /*c*/ q // r",            \* a block comment, then a line comment
      "s /* o",                    \* a block comment that spans lines
      "mid",
      "e */ t",
      "u / v",                     \* a slash that starts no comment
      "/* w */" }                  \* a block opened and closed on the line

CommentInputs == UNION {[1..n -> CommentLines] : n \in 1..MaxLines}

InitComments ==
    /\ tp = Initialize
    /\ dr = NoReader
    /\ env \in {[fs |-> <<>>, rnd |-> <<>>, members |-> <<>>, lines |-> l] :
                   l \in CommentInputs}
    /\ ret = NoRet

\* StripComments(lines)
StripCommentsAct ==
    /\ ret = NoRet
    /\ ret' = [op |-> "StripComments", lines |-> StripComments(env.lines)]
    /\ UNCHANGED <<tp, dr, env>>

NextComments == StripCommentsAct

SpecComments == InitComments /\ [][NextComments]_vars

---------------------------------------------------------------------------
(* The enum runs: one header that defines the enum Home, parsed once.  The *)
(* header is written from a list of items, one per label, each with or     *)
(* without an explicit value, in three layouts of an enum definition: the  *)
(* typedef of src/test/Employee.h with one label per line, a plain         *)
(* definition with the labels on one line between the braces, and a plain  *)
(* definition on one line, braces included.                                *)

MaxLabels == 4      \* labels of an enum definition

LabelNames ==
    <<"Anhui", "Beijing", "Shanghai", "Zhejiang", "Shenzhen", "Hangzhou">>

\* the explicit values a label is given
EnumValues == {0, 1, 9, 33}

EnumItems ==
    {[explicit |-> FALSE, value |-> 0]}
        \cup {[explicit |-> TRUE, value |-> v] : v \in EnumValues}

EnumBodies == UNION {[1..n -> EnumItems] : n \in 1..MaxLabels}

EnumStyles == {"typedef", "block", "inline"}

\* the text of label i: "Anhui = 1,", "Beijing=9,", "Shanghai,", "Zhejiang = 33"
EnumMemberText(items, i) ==
    LabelNames[i]
        \o (IF items[i].explicit
            THEN (IF i = 2 THEN "=" ELSE " = ") \o ToString(items[i].value)
            ELSE "")
        \o (IF i < Len(items) THEN "," ELSE "")

RECURSIVE EnumMembersOnOneLine(_, _)
EnumMembersOnOneLine(items, i) ==
    IF i > Len(items) THEN ""
    ELSE EnumMemberText(items, i) \o " " \o EnumMembersOnOneLine(items, i + 1)

EnumHeaderLines(items, style) ==
    IF style = "typedef"
    THEN <<"typedef enum Home", "{">>
             \o [i \in 1..Len(items) |-> "    " \o EnumMemberText(items, i)]
             \o <<"}Home;">>
    ELSE IF style = "block"
    THEN <<"enum Home", "{", EnumMembersOnOneLine(items, 1), "};">>
    ELSE <<"enum Home { " \o EnumMembersOnOneLine(items, 1) \o "};">>

InitEnum ==
    /\ tp = Initialize
    /\ dr = NoReader
    /\ env \in {[fs |-> "enum.h" :> Preprocess(EnumHeaderLines(b, s)),
                 rnd |-> RandStream, members |-> <<>>, items |-> b,
                 style |-> s] : b \in EnumBodies, s \in EnumStyles}
    /\ ret = NoRet

NextEnum == \E file \in DOMAIN env.fs : ParseFileAct(file)

SpecEnum == InitEnum /\ [][NextEnum]_vars

---------------------------------------------------------------------------
(* The enum decodes: a header with two enums (Home of src/test/Employee.h, *)
(* and Rank, two of whose labels have the same value) and with fields of   *)
(* those types as struct members, union members and array elements; data   *)
(* files holding two ints.                                                 *)

EnumDecodeLines ==
    "ed.h" :> <<"enum Home", "{", "Anhui = 1,", "Beijing=9,", "Shanghai,",
                "Zhejiang = 33", "};",
                "enum Rank", "{", "Low = 1,", "Same = 1,", "High", "};",
                "struct SE {", "Home h;", "Rank r;", "};",
                "union UE {", "Home h;", "Rank r;", "int x;", "};",
                "struct NE {", "UE u;", "Home h;", "Rank a[2];", "};",
                "struct AE {", "Rank a[2];", "};">>

EnumDecodeFiles ==
    [f \in DOMAIN EnumDecodeLines |-> Preprocess(EnumDecodeLines[f])]

\* the ints of the data files
DecodedValues == {1, 2, 5, 9, 33}

\* an int as it lies in the file, least significant byte first
IntBytes(v) ==
    <<v % 256, (v \div 256) % 256, (v \div 65536) % 256, (v \div 16777216) % 256>>

EnumBuffers == {IntBytes(v) \o IntBytes(w) : v, w \in DecodedValues}

InitEnumDecode ==
    /\ tp = Initialize
    /\ dr = NoReader
    /\ env = [fs |-> EnumDecodeFiles, rnd |-> RandStream, members |-> <<>>]
    /\ ret = NoRet

NextEnumDecode ==
    \/ \E file \in DOMAIN env.fs : ParseFileAct(file)
    \/ \E bytes \in EnumBuffers, junk \in JunkBytes : DataReaderAct(bytes, junk)
    \/ \E type_name \in DecodeNames(tp), is_union \in BOOLEAN :
           PrintTypeDataAct(type_name, is_union)

SpecEnumDecode == InitEnumDecode /\ [][NextEnumDecode]_vars

---------------------------------------------------------------------------
(* The runs on numeric tokens.  k.h defines the constant K; n.h uses one   *)
(* token as the value of a #define, of an enum label or as an array        *)
(* length.  IsNumericToken is also called on each token directly.          *)

\* the tokens: integer literals (decimal, octal, hexadecimal, zero in each
\* base), constant names, and tokens that are neither
NumericTokens ==
    {"0", "00", "0x0", "1", "16", "010", "0x1F", "K", "M", "abc", "x1", "1x"}

\* what a token is used as in n.h
TokenUses == {"define", "enum", "array"}

NumericHeaderLines(token, use) ==
    IF use = "define" THEN <<"#define NAME " \o token>>
    ELSE IF use = "enum"
    THEN <<"enum E", "{", "A = " \o token \o ",", "B", "};">>
    ELSE <<"struct S", "{", "int a[" \o token \o "];", "};">>

InitNumeric ==
    /\ tp = Initialize
    /\ dr = NoReader
    /\ env \in {[fs |-> "k.h" :> Preprocess(<<"#define K 7">>)
                     @@ "n.h" :> Preprocess(NumericHeaderLines(t, u)),
                 rnd |-> RandStream, members |-> <<>>, token |-> t,
                 use |-> u] : t \in NumericTokens, u \in TokenUses}
    /\ ret = NoRet

\* parser.IsNumericToken(token, number)
IsNumericTokenAct(token) ==
    /\ tp.status = "run"
    /\ ret' = [op |-> "IsNumericToken", token |-> token,
               ok |-> IsNumericToken(tp, token).ok,
               number |-> IsNumericToken(tp, token).number]
    /\ UNCHANGED <<tp, dr, env>>

NextNumeric ==
    \/ \E file \in DOMAIN env.fs : ParseFileAct(file)
    \/ IsNumericTokenAct(env.token)

SpecNumeric == InitNumeric /\ [][NextNumeric]_vars

---------------------------------------------------------------------------
(* The runs on top-level statements.  top.h holds a first statement (or    *)
(* none), one struct, union or enum statement in one of the five formats   *)
(* ParseStructUnion lists, and the definition of struct After.             *)

AggregateKinds == {"struct", "union", "enum"}
AggregateFormats == 1..5

\* statements that come first in top.h
FirstStatements ==
    {"", "int i = 1;", "typedef int myint;", "typedef unsigned char byte;",
     "typedef Foo Bar;"}

\* the lines between the braces
BodyLines(kind) == IF kind = "enum" THEN <<"P,", "Q">> ELSE <<"int a;">>

\* the statement of the kind in the format: 1) typedef <type> [<type_name>]
\* {....} <type_alias>; 2) <type> <type_name> {....}; 3) <type> <type_name>
\* {....} <var>; 4) <type> {....} <var>; 5) <type> <type_name> <var>; the
\* last after a definition of the type in format 2
AggregateStatement(kind, format) ==
    IF format = 1
    THEN <<"typedef " \o kind \o " T1 {">> \o BodyLines(kind) \o <<"} A1;">>
    ELSE IF format = 2
    THEN <<kind \o " T2 {">> \o BodyLines(kind) \o <<"};">>
    ELSE IF format = 3
    THEN <<kind \o " T3 {">> \o BodyLines(kind) \o <<"} v3;">>
    ELSE IF format = 4
    THEN <<kind \o " {">> \o BodyLines(kind) \o <<"} v4;">>
    ELSE <<kind \o " T5 {">> \o BodyLines(kind) \o <<"};", kind \o " T5 v5;">>

TopHeaderLines(first, kind, format) ==
    (IF first = "" THEN <<>> ELSE <<first>>)
        \o AggregateStatement(kind, format)
        \o <<"struct After {", "int z;", "};">>

InitTop ==
    /\ tp = Initialize
    /\ dr = NoReader
    /\ env \in {[fs |-> "top.h" :> Preprocess(TopHeaderLines(s, k, f)),
                 rnd |-> RandStream, members |-> <<>>, first |-> s,
                 kind |-> k, format |-> f] :
                    s \in FirstStatements, k \in AggregateKinds,
                    f \in AggregateFormats}
    /\ ret = NoRet

NextTop == \E file \in DOMAIN env.fs : ParseFileAct(file)

SpecTop == InitTop /\ [][NextTop]_vars

---------------------------------------------------------------------------
(* The runs with both reader constructors: the reader is built on a data   *)
(* file or on a buffer of the caller holding the same bytes.               *)

\* DataReader reader(parser, buffer, size)
DataReaderBufferAct(bytes, junk, null_throws) ==
    /\ tp.status = "run"
    /\ dr = NoReader
    /\ dr' = DataReaderFromBuffer(tp, BufferAddr, bytes, junk, null_throws)
    /\ ret' = [op |-> "DataReaderBuffer"]
    /\ UNCHANGED <<tp, env>>

NextBuffer ==
    \/ \E file \in DOMAIN env.fs : ParseFileAct(file)
    \/ \E bytes \in Buffers, junk \in JunkBytes : DataReaderAct(bytes, junk)
    \/ \E bytes \in Buffers, junk \in JunkBytes, null_throws \in BOOLEAN :
           DataReaderBufferAct(bytes, junk, null_throws)
    \/ \E type_name \in DecodeNames(tp), is_union \in BOOLEAN :
           PrintTypeDataAct(type_name, is_union)

SpecBuffer == Init /\ [][NextBuffer]_vars

---------------------------------------------------------------------------
(* The runs with repeated decodes: one reader, built on a data file, is    *)
(* asked for up to MaxRepeats types.                                       *)

MaxRepeats == 2     \* PrintTypeData calls on one reader

RepeatFiles == [f \in {"e.h", "s.h", "v.h", "a.h"} |-> Files[f]]

InitRepeat ==
    /\ tp = Initialize
    /\ dr = NoReader
    /\ env = [fs |-> RepeatFiles, rnd |-> RandStream, members |-> <<>>]
    /\ ret = NoRet

\* reader.PrintTypeData(type_name, is_union), again on the same reader
PrintTypeDataRepeatAct(type_name, is_union) ==
    /\ dr # NoReader
    /\ dr.status = "run"
    /\ Len(dr.report) < MaxRepeats
    /\ dr' = PrintTypeData(dr, type_name, is_union)
    /\ ret' = [op |-> "PrintTypeData", type_name |-> type_name,
               is_union |-> is_union, before |-> dr]
    /\ UNCHANGED <<tp, env>>

NextRepeat ==
    \/ \E file \in DOMAIN env.fs : ParseFileAct(file)
    \/ \E bytes \in Buffers, junk \in JunkBytes : DataReaderAct(bytes, junk)
    \/ \E type_name \in DecodeNames(tp), is_union \in BOOLEAN :
           PrintTypeDataRepeatAct(type_name, is_union)

SpecRepeat == InitRepeat /\ [][NextRepeat]_vars

---------------------------------------------------------------------------
(* ParseFiles: the include paths are scanned for header files, and every   *)
(* header found so far is handed to ParseFile after each scan.  A          *)
(* directory tree is a function from the path of a folder to the names     *)
(* readdir returns for it; include_paths_ and the keys of header_files_    *)
(* are written as sequences in the order std::set and std::map iterate.    *)

\* name ends with ".h" and is longer than 2 characters
IsHeaderName(name) ==
    Len(name) > 2 /\ Substr(name, Len(name) - 2, 2) = ".h"

\* the header files FindHeaderFiles(folder) stores, sub-folders included
RECURSIVE HeadersUnder(_, _)
HeadersUnder(tree, folder) ==
    IF folder \notin DOMAIN tree THEN {}
    ELSE UNION { IF (folder \o "/" \o n) \in DOMAIN tree
                 THEN HeadersUnder(tree, folder \o "/" \o n)
                 ELSE IF IsHeaderName(folder \o "/" \o n)
                 THEN {folder \o "/" \o n}
                 ELSE {} : n \in tree[folder] \ {".", ".."} }

\* the keys of a map with the keys of found added
KeysWith(m, found) == DOMAIN m \cup found

\* void FindHeaderFiles(string folder): header_files_[name] = false for
\* every header found
FindHeaderFiles(p, tree, folder) ==
    [p EXCEPT !.header_files_ =
        [f \in KeysWith(@, HeadersUnder(tree, folder)) |->
            IF f \in HeadersUnder(tree, folder) THEN FALSE ELSE @[f]]]

\* void SetIncludePaths(const set<string> paths)
SetIncludePaths(p, paths) == [p EXCEPT !.include_paths_ = paths]

\* the inner loop of ParseFiles over header_files_, from the k-th key of
\* order on; r is [p, rnd]
RECURSIVE ParseHeadersFrom(_, _, _, _)
ParseHeadersFrom(r, fs, order, k) ==
    IF k > Len(order) \/ r.p.status # "run" THEN r
    ELSE IF order[k] \in DOMAIN r.p.header_files_
    THEN ParseHeadersFrom(ParseFile(r.p, fs, r.rnd, order[k]), fs, order, k + 1)
    ELSE ParseHeadersFrom(r, fs, order, k + 1)

\* the outer loop of ParseFiles over include_paths_, from the i-th path on
RECURSIVE ParseFilesFrom(_, _, _, _, _)
ParseFilesFrom(r, tree, fs, order, i) ==
    IF i > Len(r.p.include_paths_) \/ r.p.status # "run" THEN r
    ELSE ParseFilesFrom(
             ParseHeadersFrom([p |-> FindHeaderFiles(r.p, tree,
                                                     r.p.include_paths_[i]),
                               rnd |-> r.rnd], fs, order, 1),
             tree, fs, order, i + 1)

\* void ParseFiles(): [p, rnd]
ParseFiles(p, tree, fs, rnd, order) ==
    ParseFilesFrom([p |-> p, rnd |-> rnd], tree, fs, order, 1)

\* The runs of ParseFiles.
MaxParsed == 4      \* ParseFile calls that read a file, before ParseFiles
                    \* is not called again

\* the folders: inc with a sub-folder and a file that is no header, lib
DirectoryTree ==
    "inc" :> {".", "..", "a.h", "sub", "readme.txt"}
 @@ "inc/sub" :> {".", "..", "b.h"}
 @@ "lib" :> {".", "..", "c.h"}

PathFiles ==
    "inc/a.h" :> Preprocess(<<"struct A {", "int a;", "};">>)
 @@ "inc/sub/b.h" :> Preprocess(<<"struct B {", "char b;", "};">>)
 @@ "lib/c.h" :> Preprocess(<<"enum C {", "P,", "Q", "};">>)

\* the keys header_files_ can get, in the order of std::map<string, bool>
HeaderOrder == <<"inc/a.h", "inc/sub/b.h", "lib/c.h">>

\* the folders an include path can name, in the order of std::set<string>;
\* none does not exist
FolderOrder == <<"inc", "inc/sub", "lib", "none">>

\* the members of s in the order of the sequence order
InOrder(order, s) == SelectSeq(order, LAMBDA x : x \in s)

IncludePathSets ==
    {InOrder(FolderOrder, s) : s \in SUBSET {FolderOrder[i] : i \in 1..4}}

InitPaths ==
    /\ tp = Initialize
    /\ dr = NoReader
    /\ env = [fs |-> PathFiles, rnd |-> RandStream, members |-> <<>>,
              tree |-> DirectoryTree]
    /\ ret = NoRet

\* parser.SetIncludePaths(paths)
SetIncludePathsAct(paths) ==
    /\ tp.status = "run"
    /\ tp' = SetIncludePaths(tp, paths)
    /\ ret' = [op |-> "SetIncludePaths", paths |-> paths]
    /\ UNCHANGED <<dr, env>>

\* parser.ParseFiles()
ParseFilesAct ==
    /\ tp.status = "run"
    /\ Len(tp.parsed) < MaxParsed
    /\ tp' = ParseFiles(tp, env.tree, env.fs, env.rnd, HeaderOrder).p
    /\ env' = [env EXCEPT !.rnd = ParseFiles(tp, env.tree, env.fs, env.rnd,
                                             HeaderOrder).rnd]
    /\ ret' = [op |-> "ParseFiles", before |-> tp]
    /\ UNCHANGED dr

NextPaths ==
    \/ \E paths \in IncludePathSets : SetIncludePathsAct(paths)
    \/ ParseFilesAct

SpecPaths == InitPaths /\ [][NextPaths]_vars

---------------------------------------------------------------------------
(* Properties.  Those on the layout are stated on SpecLayout, the others on *)
(* Spec.                                                                     *)

RECURSIVE SumVarSize(_)
SumVarSize(members) ==
    IF members = <<>> THEN 0
    ELSE Head(members).var_size + SumVarSize(Tail(members))

\* C1: for every struct registered through StoreStructUnionDef whose layout
\* completed without an alignment error, with member sizes in {1, 2,
\* multiples of 4}, the sum of var_size over the stored member list (padding
\* fields included) equals the size recorded for the struct.
C1_StructSizeIsSumOfStoredMembers ==
    ( /\ ret.op = "StoreStructUnionDef"
      /\ ret.is_struct
      /\ tp.status = "run"
      /\ ~PadStructMembers(ret.members).error
      /\ \A i \in 1..Len(ret.members) :
            \/ ret.members[i].var_size \in {1, 2}
            \/ ret.members[i].var_size % 4 = 0 )
    => SumVarSize(tp.struct_defs_[ret.type_name]) = tp.type_sizes_[ret.type_name]

\* a struct member of union type, as the decoder takes it
IsUnionMember(p, v) ==
    /\ ~v.is_union
    /\ v.decl.var_name # kPaddingFieldName
    /\ v.decl.array_size = 0
    /\ GetTokenType(p, v.decl.data_type) = "kUnionName"

\* C2: when the decoder processes a struct member of union type followed by
\* another member, the following member is read at the union member's start
\* plus the registered size of the union.
C2_MemberAfterUnionAtPaddedOffset ==
    dr # NoReader =>
        \A i, j \in 1..Len(dr.visits) :
            ( /\ dr.visits[j].call = dr.visits[i].call
              /\ dr.visits[j].idx = dr.visits[i].idx + 1
              /\ IsUnionMember(dr.type_parser_, dr.visits[i]) )
            => dr.visits[j].start
                 = dr.visits[i].start
                     + dr.type_parser_.type_sizes_[dr.visits[i].decl.data_type]

\* the size of one element of an array member: the registered size of its
\* type, or the word size for a pointer
ElementSize(p, decl) ==
    IF decl.is_pointer THEN kWordSize_ ELSE p.type_sizes_[decl.data_type]

\* the element reads of the array member visit v
ElementsOf(d, v) ==
    {k \in 1..Len(d.elems) :
        d.elems[k].call = v.call /\ d.elems[k].idx = v.idx}

\* C3: decoding an array member of N elements performs exactly N element
\* reads, each advancing the cursor by one element's size, so that the
\* member advances the cursor by its var_size.
C3_ArrayReadsAdvanceByElementSize ==
    dr # NoReader =>
        /\ \A k \in 1..Len(dr.elems) :
              dr.elems[k].to - dr.elems[k].from
                = ElementSize(dr.type_parser_, dr.elems[k].decl)
        /\ \A k \in 1..Len(dr.visits) :
              ( /\ dr.visits[k].decl.array_size # 0
                /\ (dr.visits[k].is_union
                      \/ dr.visits[k].decl.var_name # kPaddingFieldName) )
              => /\ Cardinality(ElementsOf(dr, dr.visits[k]))
                      = dr.visits[k].decl.array_size
                 /\ dr.visits[k].to - dr.visits[k].start
                      = dr.visits[k].decl.var_size

\* a non-array member that is a scalar, a pointer, an enum or a padding field
IsPlainMember(p, decl) ==
    /\ decl.array_size = 0
    /\ \/ decl.var_name = kPaddingFieldName
       \/ decl.is_pointer
       \/ GetTokenType(p, decl.data_type) \in {"kBasicDataType", "kEnumName"}

\* C4: while decoding a struct's member list the cursor never moves
\* backward, and a non-array scalar, pointer, enum or padding member moves
\* it forward by exactly the member's var_size.
C4_StructCursorAdvancesByVarSize ==
    dr # NoReader =>
        \A k \in 1..Len(dr.visits) :
            ~dr.visits[k].is_union
            => /\ dr.visits[k].to >= dr.visits[k].from
               /\ IsPlainMember(dr.type_parser_, dr.visits[k].decl)
                  => dr.visits[k].to - dr.visits[k].from
                       = dr.visits[k].decl.var_size

\* C5: for every union registered through StoreStructUnionDef the recorded
\* size is the maximum of the members' var_size rounded up to the next
\* multiple of the alignment unit (0 for an empty list), and the stored
\* member list is the list handed in, without padding fields.
C5_UnionSizeIsRoundedMaximum ==
    (ret.op = "StoreStructUnionDef" /\ ~ret.is_struct)
    => /\ tp.status = "run"
       /\ ret.type_name \in DOMAIN tp.union_defs_
       /\ tp.union_defs_[ret.type_name] = ret.members
       /\ tp.type_sizes_[ret.type_name] % kAlignment_ = 0
       /\ \A i \in 1..Len(ret.members) :
             ret.members[i].var_size <= tp.type_sizes_[ret.type_name]
       /\ ret.members = <<>> => tp.type_sizes_[ret.type_name] = 0
       /\ ret.members # <<>>
          => \E i \in 1..Len(ret.members) :
                tp.type_sizes_[ret.type_name] - ret.members[i].var_size
                    < kAlignment_

\* a union whose largest member has 3 bytes was stored with size 4
C5_Witness ==
    /\ ret.op = "StoreStructUnionDef"
    /\ ~ret.is_struct
    /\ ret.members # <<>>
    /\ \A i \in 1..Len(ret.members) : ret.members[i].var_size <= 3
    /\ \E i \in 1..Len(ret.members) : ret.members[i].var_size = 3
    /\ ret.type_name \in DOMAIN tp.union_defs_
    /\ tp.type_sizes_[ret.type_name] = 4

\* C6: while decoding a union, every member starts reading at the cursor
\* position at which decoding of that union began, however far earlier
\* members advanced the cursor.
C6_UnionMembersStartAtUnionStart ==
    dr # NoReader =>
        \A k \in 1..Len(dr.visits) :
            dr.visits[k].is_union
            => /\ dr.visits[k].call <= Len(dr.prepared)
               /\ dr.prepared[dr.visits[k].call].is_union
               /\ dr.visits[k].start = dr.prepared[dr.visits[k].call].at

\* a member of a union was reached with the cursor moved on by an earlier
\* member, and read at the start of the union
C6_Witness ==
    /\ dr # NoReader
    /\ \E k \in 1..Len(dr.visits) :
          /\ dr.visits[k].is_union
          /\ dr.visits[k].idx > 1
          /\ dr.visits[k].from > dr.prepared[dr.visits[k].call].at
          /\ dr.visits[k].start = dr.prepared[dr.visits[k].call].at

\* the names the registry knows as types: scalars, structs, unions, enums
RegisteredTypes(p) ==
    basic_types_ \cup DOMAIN p.type_sizes_ \cup DOMAIN p.struct_defs_
        \cup DOMAIN p.union_defs_ \cup DOMAIN p.enum_defs_

\* C7: ParseDeclaration returns failure for every statement whose first
\* token is not a registered scalar, struct, union or enum name, and never
\* returns success with a descriptor of an unregistered type.
C7_UnregisteredTypeFails ==
    ret.op = "ParseDeclaration"
    => /\ TokenAt(SplitLineIntoTokens(ret.line), 0) \notin RegisteredTypes(tp)
          => ~ret.ok
       /\ ret.ok => ret.decl.data_type \in RegisteredTypes(tp)

\* the statement of each file that names an unregistered type: its place in
\* the lines of the file
BadStatement == "bt.h" :> 4 @@ "bi.h" :> 2

WithoutLine(lines, k) ==
    SubSeq(lines, 1, k - 1) \o SubSeq(lines, k + 1, Len(lines))

\* C8: parsing a header with one declaration of an unregistered type, at top
\* level or inside a struct body, leaves the registry as the parse of the
\* same header without that statement leaves it.
C8_BadDeclarationSkipped ==
    ( /\ ret.op = "ParseFile"
      /\ ret.file \in DOMAIN BadStatement
      /\ ret.file \notin DOMAIN ret.before.header_files_ )
    => tp = LeaveFile(ParseSource(EnterFile(ret.before, ret.file),
                                  env.fs, ret.rnd,
                                  Preprocess(WithoutLine(HeaderLines[ret.file],
                                                         BadStatement[ret.file])))).p

\* C9: no name is a key of more than one of struct_defs_, union_defs_ and
\* enum_defs_.
C9_NameInAtMostOneMapping ==
    /\ DOMAIN tp.struct_defs_ \cap DOMAIN tp.union_defs_ = {}
    /\ DOMAIN tp.struct_defs_ \cap DOMAIN tp.enum_defs_ = {}
    /\ DOMAIN tp.union_defs_ \cap DOMAIN tp.enum_defs_ = {}

\* the call of PrintTypeData just made ended with the Unknown struct/union
\* error
SaidUnknown ==
    /\ Len(dr.diag) > Len(ret.before.diag)
    /\ dr.diag[Len(ret.before.diag) + 1]
         = "Unknown struct/union: " \o ret.type_name

\* C10: PrintTypeData(type_name, is_union) ends with the Unknown
\* struct/union error, writing no report, exactly when type_name is
\* registered neither as a struct nor as a union; a registered struct is
\* decoded as a struct and a registered union as a union, for either value
\* of is_union.
C10_UnknownExactlyWhenUnregistered ==
    ret.op = "PrintTypeData"
    => /\ SaidUnknown
          <=> ret.type_name \notin DOMAIN dr.type_parser_.struct_defs_
                                     \cup DOMAIN dr.type_parser_.union_defs_
       /\ SaidUnknown => dr.out_stream_ = ret.before.out_stream_
       /\ ( /\ ret.type_name \in DOMAIN dr.type_parser_.struct_defs_
            /\ ret.type_name \notin DOMAIN dr.type_parser_.union_defs_ )
          => /\ Len(dr.prepared) > Len(ret.before.prepared)
             /\ ~dr.prepared[Len(ret.before.prepared) + 1].is_union
             /\ ~dr.prepared[Len(ret.before.prepared) + 1].from_union_defs
       /\ ( /\ ret.type_name \in DOMAIN dr.type_parser_.union_defs_
            /\ ret.type_name \notin DOMAIN dr.type_parser_.struct_defs_ )
          => /\ Len(dr.prepared) > Len(ret.before.prepared)
             /\ dr.prepared[Len(ret.before.prepared) + 1].is_union
             /\ dr.prepared[Len(ret.before.prepared) + 1].from_union_defs

\* a synthesized anonymous type name: the reserved prefix followed by the
\* generated suffix
IsAnonymousName(name) ==
    /\ Len(name) > Len(kAnonymousTypePrefix)
    /\ Substr(name, 0, Len(kAnonymousTypePrefix)) = kAnonymousTypePrefix

\* C11: the header line of an aggregate registered under a synthesized
\* anonymous name is printed as "struct {" or "union {", without the name;
\* the header of every other type contains the type name.
C11_AnonymousNameSuppressedInHeader ==
    dr # NoReader =>
        \A k \in 1..Len(dr.prepared) :
            LET e == dr.prepared[k] IN
            IF IsAnonymousName(e.type_name)
            THEN e.header \in {"struct {\n", "union {\n"}
            ELSE e.header \in {"struct " \o e.type_name \o " {\n",
                               "union " \o e.type_name \o " {\n"}

\* the synthesized names among the keys of a mapping
AnonymousKeys(defs) == {n \in DOMAIN defs : IsAnonymousName(n)}

\* the anonymous structs each header of the anonymous runs defines
AnonymousStructs == "an.h" :> 2 @@ "au.h" :> 0 @@ "ae.h" :> 1 @@ "et.h" :> 0

\* C12: the anonymous structs parsed in one run get names that differ from
\* one another, and each is a separate key of struct_defs_ after parsing,
\* also when their member lists are identical and rands() returns the same
\* value on consecutive calls.
C12_AnonymousStructsGetDistinctNames ==
    ( /\ ret.op = "ParseFile"
      /\ ret.file \in DOMAIN AnonymousStructs
      /\ ret.file \notin DOMAIN ret.before.header_files_
      /\ tp.status = "run" )
    => /\ AnonymousKeys(ret.before.struct_defs_) \subseteq AnonymousKeys(tp.struct_defs_)
       /\ Cardinality(AnonymousKeys(tp.struct_defs_)
                        \ AnonymousKeys(ret.before.struct_defs_))
            = AnonymousStructs[ret.file]
       /\ \A n \in AnonymousKeys(ret.before.struct_defs_) :
              tp.struct_defs_[n] = ret.before.struct_defs_[n]

\* two identical anonymous structs were parsed while rands() repeated itself
C12_Witness ==
    /\ ret.op = "ParseFile"
    /\ ret.file = "an.h"
    /\ tp.status = "run"
    /\ Len(ret.rnd) >= 2
    /\ ret.rnd[1] = ret.rnd[2]
    /\ Cardinality(AnonymousKeys(tp.struct_defs_)) = 2
    /\ \A n \in AnonymousKeys(tp.struct_defs_) :
           tp.struct_defs_[n] = tp.struct_defs_["_ANONYMOUS_" \o ret.rnd[1]]
    /\ tp.struct_defs_["O1"][1].data_type # tp.struct_defs_["O1"][2].data_type

\* the synthesized names registered in any of the three mappings
AnonymousTypeNames(p) ==
    AnonymousKeys(p.struct_defs_) \cup AnonymousKeys(p.union_defs_)
        \cup AnonymousKeys(p.enum_defs_)

\* the mappings a name is a key of
MappingsOf(p, n) ==
    (IF n \in DOMAIN p.struct_defs_ THEN {"struct"} ELSE {})
        \cup (IF n \in DOMAIN p.union_defs_ THEN {"union"} ELSE {})
        \cup (IF n \in DOMAIN p.enum_defs_ THEN {"enum"} ELSE {})

\* the anonymous structs, unions and enums each header of the anonymous
\* runs defines
AnonymousTypes == "an.h" :> 2 @@ "au.h" :> 2 @@ "ae.h" :> 3 @@ "et.h" :> 1

\* C13: every synthesized name, for a struct, a union or an enum, differs
\* from every name registered in any of the three mappings when it is
\* assigned: each anonymous type of a file adds one new name, in one
\* mapping, and no earlier entry is overwritten.
C13_AnonymousNameIsFresh ==
    ( /\ ret.op = "ParseFile"
      /\ ret.file \in DOMAIN AnonymousTypes
      /\ ret.file \notin DOMAIN ret.before.header_files_
      /\ tp.status = "run" )
    => /\ Cardinality(AnonymousTypeNames(tp) \ AnonymousTypeNames(ret.before))
            = AnonymousTypes[ret.file]
       /\ \A n \in AnonymousTypeNames(tp) : Cardinality(MappingsOf(tp, n)) = 1
       /\ \A n \in AnonymousTypeNames(ret.before) :
              /\ MappingsOf(tp, n) = MappingsOf(ret.before, n)
              /\ n \in DOMAIN tp.struct_defs_
                     => tp.struct_defs_[n] = ret.before.struct_defs_[n]
              /\ n \in DOMAIN tp.union_defs_
                     => tp.union_defs_[n] = ret.before.union_defs_[n]
              /\ n \in DOMAIN tp.enum_defs_
                     => tp.enum_defs_[n] = ret.before.enum_defs_[n]

\* the registry mappings: struct, union, enum, sizes, constants
RegistryOf(p) ==
    <<p.struct_defs_, p.union_defs_, p.enum_defs_, p.type_sizes_, p.const_defs_>>

\* how often x occurs in a sequence
Occurrences(seq, x) == Cardinality({i \in 1..Len(seq) : seq[i] = x})

\* C14: ParseFile for a path already parsed in this run returns without
\* reading the file and leaves the registry mappings unchanged; a header
\* reached through two include chains is parsed exactly once.
C14_ParsedFileIsNotParsedAgain ==
    ret.op = "ParseFile"
    => /\ Occurrences(ret.before.parsed, ret.file) > 0
            => /\ tp.parsed = ret.before.parsed
               /\ RegistryOf(tp) = RegistryOf(ret.before)
               /\ tp.header_files_ = ret.before.header_files_
               /\ env.rnd = ret.rnd
       /\ \A f \in DOMAIN env.fs :
              /\ Occurrences(tp.parsed, f) <= 1
              /\ Occurrences(tp.parsed, f) = 1
                     <=> (f \in DOMAIN tp.header_files_ /\ tp.header_files_[f])

\* a second ParseFile of a parsed header, with a registry that is not empty
C14_Witness ==
    /\ ret.op = "ParseFile"
    /\ Occurrences(ret.before.parsed, ret.file) = 1
    /\ DOMAIN ret.before.struct_defs_ # {}
    /\ tp.status = "run"

\* the struct types of the headers whose includes form a cycle
CycleTypes ==
    "c1.h" :> {"C1", "C2", "C3"} @@ "c2.h" :> {"C1", "C2", "C3"}
        @@ "self.h" :> {"SF"}

\* C15: parsing headers whose #include directives form a cycle, a file that
\* includes itself among them, terminates: every call of ParseFile returns
\* without exhausting the stack, no path is entered a second time while or
\* after it is parsed, and the rest of each file of the cycle is parsed.
C15_CircularIncludesTerminate ==
    ret.op = "ParseFile"
    => /\ tp.status = "run"
       /\ tp.depth = 0
       /\ Len(tp.parsed) <= Cardinality(DOMAIN env.fs)
       /\ \A i, j \in 1..Len(tp.parsed) : tp.parsed[i] = tp.parsed[j] => i = j
       /\ ret.file \in DOMAIN CycleTypes
              => CycleTypes[ret.file] \subseteq DOMAIN tp.struct_defs_

\* a cycle of two files was parsed, entered from one of them
C15_Witness ==
    /\ ret.op = "ParseFile"
    /\ ret.file = "c2.h"
    /\ tp.parsed = <<"c2.h", "c1.h">>
    /\ tp.status = "run"
    /\ {"C1", "C2", "C3"} \subseteq DOMAIN tp.struct_defs_

\* The text of a list of lines that is outside every comment, read as C
\* reads it: "//" runs to the end of its line, "/*" to the next "*/".
\* NonCommentLine is the text of one line from place i on and whether a
\* block comment is open at its end; NonCommentText is the text of the
\* lines from line k on, the line ends left out, and whether a block
\* comment is still open at the end of the list.
RECURSIVE NonCommentLine(_, _, _)
KeepChar(ch, r) == [text |-> ch \o r.text, open |-> r.open]
NonCommentLine(line, i, in_block) ==
    IF i >= Len(line) THEN [text |-> "", open |-> in_block]
    ELSE IF in_block
    THEN IF Substr(line, i, 2) = "*/"
         THEN NonCommentLine(line, i + 2, FALSE)
         ELSE NonCommentLine(line, i + 1, TRUE)
    ELSE IF Substr(line, i, 2) = "//" THEN [text |-> "", open |-> FALSE]
    ELSE IF Substr(line, i, 2) = "/*" THEN NonCommentLine(line, i + 2, TRUE)
    ELSE KeepChar(CharAt(line, i), NonCommentLine(line, i + 1, FALSE))

RECURSIVE NonCommentText(_, _, _)
KeepLine(first, rest) == [text |-> first.text \o rest.text, open |-> rest.open]
NonCommentRest(lines, k, first) ==
    KeepLine(first, NonCommentText(lines, k + 1, first.open))
NonCommentText(lines, k, in_block) ==
    IF k > Len(lines) THEN [text |-> "", open |-> in_block]
    ELSE NonCommentRest(lines, k, NonCommentLine(lines[k], 0, in_block))

\* the lines of a list, one after the other
RECURSIVE JoinLines(_)
JoinLines(lines) ==
    IF lines = <<>> THEN "" ELSE Head(lines) \o JoinLines(Tail(lines))

\* C16: after StripComments the lines hold none of the text of a "//"
\* comment or of a terminated "/* */" comment and all the other text, in
\* order, for every arrangement of comments: several blocks on a line, a
\* block opened and closed on one line, a block followed by a line comment
\* on the same line, blocks that span lines.
C16_CommentsFullyRemoved ==
    ( /\ ret.op = "StripComments"
      /\ ~NonCommentText(env.lines, 1, FALSE).open )
    => JoinLines(ret.lines) = NonCommentText(env.lines, 1, FALSE).text

\* the structs of each header that holds a statement declaring more than
\* one variable: at top level in mt.h, inside the body of M2 in mi.h
MultiVariableTypes == "mt.h" :> {"M1", "M3"} @@ "mi.h" :> {"M2", "M4"}

\* C17: a statement declaring more than one variable, at top level or
\* inside a struct/union body, is skipped without terminating the run: the
\* statements that follow are parsed and the enclosing aggregate, if any,
\* is registered.
C17_MultiVariableStatementSkipped ==
    ( /\ ret.op = "ParseFile"
      /\ ret.file \in DOMAIN MultiVariableTypes
      /\ ret.file \notin DOMAIN ret.before.header_files_ )
    => /\ tp.status = "run"
       /\ MultiVariableTypes[ret.file] \subseteq DOMAIN tp.struct_defs_


\* the address one past the last byte of the buffer
BufferEnd(d) == d.data_buffer_ + d.data_size_

\* the reads of d that take bytes beyond the end of the buffer
ReadsBeyondBuffer(d) ==
    {i \in 1..Len(d.reads) : d.reads[i].ptr + d.reads[i].len > BufferEnd(d)}

\* the padding fields whose skip moved the cursor beyond the end of the buffer
PaddingBeyondBuffer(d) ==
    {i \in 1..Len(d.visits) :
        /\ ~d.visits[i].is_union
        /\ d.visits[i].decl.var_name = kPaddingFieldName
        /\ d.visits[i].to > BufferEnd(d)}

\* the type was rendered to its end: the report of the call closes the type
RenderedWhole(d, before) ==
    /\ Len(d.report) = Len(before.report) + 1
    /\ LET out == d.report[Len(d.report)] IN
       /\ Len(out) >= 2
       /\ SubstrFrom(out, Len(out) - 2) = "}\n"

\* C18: whenever decoding a field reads bytes beyond the end of the buffer
\* (a struct member, a union branch, a padding field that is skipped),
\* 'bad data offset' is recorded for that read, and the decode goes on until
\* the whole type is rendered.
C18_OverrunIsReported ==
    (ret.op = "PrintTypeData" /\ dr.prepared # <<>>) =>
        /\ \A i \in ReadsBeyondBuffer(dr) : dr.reads[i].bad_data_offset
        /\ \A i \in PaddingBeyondBuffer(dr) : dr.visits[i].diags > 0
        /\ RenderedWhole(dr, ret.before)


\* the list recorded for Home follows the items it was written from: the
\* labels in declaration order, an explicit value as given, the first label
\* without one at 0, any other label without one at the value before + 1
EnumListFollows(list, items) ==
    /\ Len(list) = Len(items)
    /\ \A i \in 1..Len(items) :
          /\ list[i][1] = LabelNames[i]
          /\ list[i][2] = IF items[i].explicit THEN items[i].value
                          ELSE IF i = 1 THEN 0
                          ELSE list[i - 1][2] + 1

\* C19: in every parsed enum definition the recorded (label, value) list is
\* in declaration order; a label with an explicit value has that value, the
\* first label without one has 0, and each other label without one has the
\* value of the label before it plus 1.
C19_EnumValuesFollowDeclaration ==
    (ret.op = "ParseFile" /\ ret.file = "enum.h") =>
        /\ "Home" \in DOMAIN tp.enum_defs_ =>
               EnumListFollows(tp.enum_defs_["Home"], env.items)
        /\ (/\ env.style # "inline"
            /\ \A i \in 1..Len(env.items) :
                  env.items[i].explicit => env.items[i].value # 0) =>
               /\ tp.status = "run"
               /\ "Home" \in DOMAIN tp.enum_defs_

\* Anhui = 1, Beijing=9, Shanghai, Zhejiang = 33 was parsed from the typedef
\* of Employee.h and recorded as 1, 9, 10, 33
C19_Witness ==
    /\ ret.op = "ParseFile" /\ ret.file = "enum.h"
    /\ env.style = "typedef"
    /\ env.fs["enum.h"] = Preprocess(<<"typedef enum Home", "{",
                                       "    Anhui = 1,", "    Beijing=9,",
                                       "    Shanghai,", "    Zhejiang = 33",
                                       "}Home;">>)
    /\ "Home" \in DOMAIN tp.enum_defs_
    /\ tp.enum_defs_["Home"] = <<<<"Anhui", 1>>, <<"Beijing", 9>>,
                                 <<"Shanghai", 10>>, <<"Zhejiang", 33>>>>


\* label is what the claim has the decoder print for the integer v: the
\* label of the first pair of enums whose value is v, Unknown when there is
\* no such pair
IsLabelOf(enums, v, label) ==
    \/ \E i \in 1..Len(enums) :
          /\ enums[i][2] = v
          /\ enums[i][1] = label
          /\ \A j \in 1..(i - 1) : enums[j][2] # v
    \/ /\ \A i \in 1..Len(enums) : enums[i][2] # v
       /\ label = "Unknown"

\* the reads of d made for a field of an enum type
EnumReads(d) ==
    {i \in 1..Len(d.reads) :
        d.reads[i].data_type \in DOMAIN d.type_parser_.enum_defs_}

\* the text t is part of the text s
Contains(s, t) == \E k \in 0..(Len(s) - Len(t)) : Substr(s, k, Len(t)) = t

\* the labels of an enum, and Unknown
LabelsOf(enums) == {enums[i][1] : i \in 1..Len(enums)} \cup {"Unknown"}

\* the line written for the read r is "<integer>, 0x<hex>, <label>" with the
\* label the claim gives for that integer, and the line is in the report
PrintsLabel(d, r) ==
    \E label \in LabelsOf(d.type_parser_.enum_defs_[r.data_type]) :
        /\ IsLabelOf(d.type_parser_.enum_defs_[r.data_type], r.int_value, label)
        /\ Substr(r.text, 0, Len(SetW3(r.int_value)) + 4)
               = SetW3(r.int_value) \o ", 0x"
        /\ Len(r.text) >= Len(label) + 3
        /\ SubstrFrom(r.text, Len(r.text) - Len(label) - 3)
               = ", " \o label \o "\n"
        /\ Contains(d.report[Len(d.report)], r.text)

\* C20: for a field of an enum type, as a struct member, a union member or
\* an array element, the decoder prints the label of the first pair of the
\* enum's list whose value is the decoded integer, and Unknown when no pair
\* has that value.
C20_EnumFieldPrintsFirstLabel ==
    (ret.op = "PrintTypeData" /\ dr.prepared # <<>>) =>
        \A i \in EnumReads(dr) : PrintsLabel(dr, dr.reads[i])

\* the members of enum type visited by the decode: in a union, in a struct,
\* as an array
EnumVisits(d, in_union, is_array) ==
    {i \in 1..Len(d.visits) :
        /\ d.visits[i].decl.data_type \in DOMAIN d.type_parser_.enum_defs_
        /\ d.visits[i].is_union = in_union
        /\ (d.visits[i].decl.array_size # 0) = is_array}

\* a decode went through an enum member of a union, an enum member of a
\* struct and the elements of an enum array, and printed a label of Rank
\* that is not the only one with its value (Low, not Same) and Unknown
C20_Witness ==
    /\ ret.op = "PrintTypeData"
    /\ EnumVisits(dr, TRUE, FALSE) # {}
    /\ EnumVisits(dr, FALSE, FALSE) # {}
    /\ EnumVisits(dr, FALSE, TRUE) # {}
    /\ \E i, j \in EnumReads(dr) :
          /\ dr.reads[i].data_type = "Rank"
          /\ dr.reads[i].int_value = 1
          /\ Contains(dr.reads[i].text, ", Low\n")
          /\ Contains(dr.reads[j].text, ", Unknown\n")

----------------------------------------------------------------------------
(* C21: numeric tokens *)

\* the characters of token from index i on are digits of the base, and
\* there is at least one (C integer literals without suffix)
RECURSIVE AllDigits(_, _, _)
AllDigits(token, i, base) ==
    IF i >= Len(token) THEN TRUE
    ELSE DigitValue(CharAt(token, i)) < base /\ AllDigits(token, i + 1, base)

IsHexLiteral(token) ==
    Len(token) > 2 /\ CharAt(token, 0) = "0" /\ CharAt(token, 1) \in {"x", "X"}
        /\ AllDigits(token, 2, 16)

IsIntegerLiteral(token) ==
    /\ token # ""
    /\ \/ IsHexLiteral(token)
       \/ CharAt(token, 0) = "0" /\ AllDigits(token, 1, 8)
       \/ CharAt(token, 0) # "0" /\ AllDigits(token, 0, 10)

LiteralValue(token) ==
    IF IsHexLiteral(token) THEN Digits(token, 2, 16, 0)
    ELSE IF CharAt(token, 0) = "0" THEN Digits(token, 1, 8, 0)
    ELSE Digits(token, 0, 10, 0)

\* token is a literal or a name of the constants mapping of p
IsKnownNumber(p, token) ==
    IsIntegerLiteral(token) \/ token \in DOMAIN p.const_defs_

NumberOf(p, token) ==
    IF IsIntegerLiteral(token) THEN LiteralValue(token) ELSE p.const_defs_[token]

\* what IsNumericToken answers for a token
NumericAnswerIsRight ==
    ret.op = "IsNumericToken" =>
        /\ ret.ok = IsKnownNumber(tp, ret.token)
        /\ ret.ok => ret.number = NumberOf(tp, ret.token)

\* #define NAME token registers NAME exactly when token is a known number
DefineRegistersKnownNumber ==
    (ret.op = "ParseFile" /\ ret.file = "n.h" /\ env.use = "define") =>
        /\ ("NAME" \in DOMAIN tp.const_defs_) = IsKnownNumber(ret.before, env.token)
        /\ "NAME" \in DOMAIN tp.const_defs_ =>
               tp.const_defs_["NAME"] = NumberOf(ret.before, env.token)

\* an enum label given by a known number is accepted
EnumAcceptsKnownNumber ==
    (ret.op = "ParseFile" /\ ret.file = "n.h" /\ env.use = "enum"
        /\ IsKnownNumber(ret.before, env.token)) =>
        /\ "E" \in DOMAIN tp.enum_defs_
        /\ tp.enum_defs_["E"][1] = <<"A", NumberOf(ret.before, env.token)>>

\* an array length given by a known number is accepted
ArrayAcceptsKnownNumber ==
    (ret.op = "ParseFile" /\ ret.file = "n.h" /\ env.use = "array"
        /\ IsKnownNumber(ret.before, env.token)) =>
        /\ "S" \in DOMAIN tp.struct_defs_
        /\ tp.struct_defs_["S"][1].array_size = NumberOf(ret.before, env.token)

\* C21: IsNumericToken returns true with the token's value for every integer
\* literal, zero included, and for every name of the constants mapping, and
\* false for every other token; #define NAME VALUE registers NAME exactly
\* when VALUE is such a token, and an enum label or an array length given by
\* such a token is accepted.
C21_NumericTokensAccepted ==
    /\ NumericAnswerIsRight
    /\ DefineRegistersKnownNumber
    /\ EnumAcceptsKnownNumber
    /\ ArrayAcceptsKnownNumber

----------------------------------------------------------------------------
(* C22: the size of a declaration *)

\* the unit of a declaration of form f: the word size for a pointer, the
\* registered size of the type otherwise
UnitOf(p, f) == IF f.pointer THEN 4 ELSE GetTypeSize(p, f.type)

\* the forms the claim is about: T registered, and not a plain void object
SizedForms(p) ==
    {f \in DeclForms : f.type \in RegisteredTypes(p)
                          /\ (f.type = "void" => f.pointer)}

\* C22: for every declaration `T name;`, `T name[N];`, `T *name;` or
\* `T *name[N];` with T registered, ParseDeclaration succeeds and the size it
\* sets is unit x (N for an array, 1 otherwise), the unit being 4 for a
\* pointer whatever the pointee type, void included, and the registered size
\* of T otherwise.
C22_DeclarationSizeIsUnitTimesLength ==
    ret.op = "ParseDeclaration" =>
        \A f \in SizedForms(tp) :
            ret.line = DeclText(f) =>
                /\ ret.ok
                /\ ret.decl.var_size = UnitOf(tp, f) * (IF f.n > 0 THEN f.n ELSE 1)

----------------------------------------------------------------------------
(* C23: struct, union and enum statements at top level *)

\* C23: a struct, union or enum statement at file top level in any of the
\* five formats, the variable declarations among them, never aborts the run
\* and never stops the parsing of the rest of the file: the statements after
\* it are parsed and their definitions registered.
C23_TopLevelStatementParsed ==
    (ret.op = "ParseFile" /\ ret.file = "top.h"
        /\ env.first \in {"", "int i = 1;"}) =>
        /\ tp.status = "run"
        /\ "After" \in DOMAIN tp.struct_defs_

----------------------------------------------------------------------------
(* C24: the typedef context *)

\* the top-level struct/union/enum statements of top.h in order, each with
\* whether the typedef keyword begins it
TypedefBegins(format) ==
    IF format = 1 THEN <<TRUE, FALSE>>
    ELSE IF format = 5 THEN <<FALSE, FALSE, FALSE>>
    ELSE <<FALSE, FALSE>>

\* C24: the typedef context handed to the aggregate parser is true only for
\* the struct/union/enum statement the typedef keyword itself begins: after
\* any other statement starting with typedef, the next top-level definition
\* is parsed with is_typedef = false.
C24_TypedefContextOnlyForItsStatement ==
    (ret.op = "ParseFile" /\ ret.file = "top.h") =>
        \A i \in 1..Len(tp.typedefs) :
            tp.typedefs[i].is_typedef = TypedefBegins(env.format)[i]

----------------------------------------------------------------------------
(* C25: member lists without a layout *)

\* a member whose size is not a multiple of 4 and is 3 or larger
IsOddSized(decl) == decl.var_size % 4 # 0 /\ decl.var_size >= 3

HasOddSized(members) == \E i \in 1..Len(members) : IsOddSized(members[i])

\* C25: for every struct member list the padding algorithm cannot lay out
\* (a member whose size is not a multiple of 4 and is 3 or larger, such as a
\* 2-byte run followed by a 3-byte member), PadStructMembers returns 0 to its
\* caller with a diagnostic instead of aborting; the struct is registered
\* with size 0 and the run goes on.
C25_NoLayoutReturnsZero ==
    (ret.op = "StoreStructUnionDef" /\ ret.is_struct
        /\ HasOddSized(ret.members)) =>
        /\ ~PadStructMembers(ret.members).abort
        /\ PadStructMembers(ret.members).error
        /\ PadStructMembers(ret.members).size = 0
        /\ tp.status = "run"
        /\ ret.type_name \in DOMAIN tp.struct_defs_
        /\ tp.type_sizes_[ret.type_name] = 0

----------------------------------------------------------------------------
(* C26: statements of fewer than 3 tokens *)

\* C26: ParseDeclaration called on a statement that ends with ';' but has
\* fewer than 3 tokens (the forward declaration `struct Foo;` probed by
\* ParseStructUnion, or `x;`) returns failure to its caller, with the
\* registry unchanged, rather than aborting the run.
C26_ShortStatementFails ==
    /\ (ret.op = "ParseDeclaration" /\ ret.line \in ShortStatements) =>
           /\ ~ret.ok
           /\ tp.status = "run"
           /\ RegistryOf(tp) = RegistryOf(ret.before)
    /\ (ret.op = "ParseFile" /\ ret.file = "fw.h"
           /\ "fw.h" \notin DOMAIN ret.before.header_files_) =>
           tp.status = "run"

----------------------------------------------------------------------------
(* C27: alignment inside the padded member list *)

\* the offset at which entry i of a stored list begins
OffsetOf(members, i) == SumVarSize(SubSeq(members, 1, i - 1))

IsDeclared(decl) == decl.var_name # kPaddingFieldName

\* the list without its padding fields
DeclaredMembers(members) == SelectSeq(members, IsDeclared)

\* the layout of the list handed to StoreStructUnionDef completed: a struct,
\* no abort, no error return, declared sizes in {1, 2} or multiples of 4
LayoutCompleted ==
    /\ ret.op = "StoreStructUnionDef"
    /\ ret.is_struct
    /\ tp.status = "run"
    /\ ~PadStructMembers(ret.members).error
    /\ \A i \in 1..Len(ret.members) :
          \/ ret.members[i].var_size \in {1, 2}
          \/ ret.members[i].var_size % 4 = 0

\* C27: in every padded member list stored for a struct whose layout
\* completed without error, each member whose size is a multiple of 4 begins
\* at an offset (the sum of var_size of all entries before it, padding
\* fields included) that is a multiple of 4, and the declared members keep
\* their declaration order.
C27_AlignedMembersAtAlignedOffsets ==
    LayoutCompleted =>
        /\ \A i \in 1..Len(tp.struct_defs_[ret.type_name]) :
              tp.struct_defs_[ret.type_name][i].var_size % 4 = 0 =>
                  OffsetOf(tp.struct_defs_[ret.type_name], i) % 4 = 0
        /\ DeclaredMembers(tp.struct_defs_[ret.type_name]) = ret.members

\* a stored list in which padding was inserted before an aligned member and
\* after a member following a 2-byte run: short, char, padding, int
C27_Witness ==
    /\ LayoutCompleted
    /\ Len(ret.members) = 3
    /\ ret.members[1].var_size = 2 /\ ret.members[2].var_size = 1
    /\ ret.members[3].var_size = 4
    /\ Len(tp.struct_defs_[ret.type_name]) = 4
    /\ ~IsDeclared(tp.struct_defs_[ret.type_name][3])
    /\ OffsetOf(tp.struct_defs_[ret.type_name], 4) = 4

----------------------------------------------------------------------------
(* C28: the first read of a reader *)

\* C28: for a reader constructed from an in-memory buffer, as for a reader
\* constructed from a file holding the same bytes, the first field read by
\* the first top-level decode is taken from offset 0 of the buffer.
C28_FirstReadAtOffsetZero ==
    (ret.op = "PrintTypeData" /\ Len(ret.before.report) = 0) =>
        /\ dr.status = "run"
        /\ Len(dr.reads) > 0 => dr.reads[1].ptr = dr.data_buffer_

----------------------------------------------------------------------------
(* C29: repeated decodes *)

\* the PrepareTypeData calls made by PrintTypeData itself
TopLevelPrepared(d) == {k \in 1..Len(d.prepared) : d.prepared[k].indent = 0}

\* the last call repeated the call before it: same type name, same is_union
SameCallTwice ==
    /\ ret.op = "PrintTypeData"
    /\ Len(dr.report) = 2
    /\ Len(ret.before.prepared) > 0
    /\ ret.before.prepared[1].type_name = ret.type_name
    /\ ret.before.prepared[1].is_union = ret.is_union

\* C29: every top-level PrintTypeData call starts decoding at buffer offset
\* 0, and two consecutive calls on the same reader with the same type name
\* produce the same report, the second holding nothing left over from the
\* first.
C29_RepeatedDecodeSameReport ==
    /\ dr # NoReader =>
           \A k \in TopLevelPrepared(dr) : dr.prepared[k].at = dr.data_buffer_
    /\ SameCallTwice => dr.report[2] = dr.report[1]

----------------------------------------------------------------------------
(* C30: one ParseFiles run *)

\* how often the last ParseFiles run parsed the file
ParsedInRun(file) ==
    Occurrences(tp.parsed, file) - Occurrences(ret.before.parsed, file)

\* C30: during one ParseFiles run over any set of include directories, a
\* directory and one of its own sub-directories among them, each discovered
\* header path is parsed at most once: a path already marked parsed is not
\* set back to not-parsed by a later directory scan.
C30_HeaderParsedOncePerRun ==
    ret.op = "ParseFiles" =>
        \A file \in DOMAIN tp.header_files_ : ParsedInRun(file) <= 1

=============================================================================
